---- MODULE Spec2Model ----
(***************************************************************************)
(* State-machine model of the sakura arena tree                            *)
(* (src/shared/crates/sakura/src/{tree,node,iterators,lib}.rs).            *)
(*                                                                         *)
(* A NodeId is its index.  Option<NodeId> is the index or NoneId.  A slot  *)
(* of Tree::nodes (Option<Node<T>>) is a record whose field `some` tells   *)
(* Some(node) from None.  Vec index i is sequence index i + 1.             *)
(*                                                                         *)
(* Internal helpers are operators over a machine record                    *)
(*   m = [root, nodes, free_ids, st]                                       *)
(* where st is "run" while the call is executing normally, "panic" after   *)
(* an expect/unwrap/assert failed and "diverge" after a recursion that     *)
(* cannot end.  A helper applied to a machine that is not running leaves   *)
(* it as it is, so the fields hold the tree as the failed call left it.    *)
(*                                                                         *)
(* op, res and ret describe the last public call and what it handed back;  *)
(* pre is a history variable: where it records (pre.rec), it holds the     *)
(* tree as it was before the last call.  out is what the last call         *)
(* produced when it was height, write_formatted, an == or an iterator run   *)
(* to its end.  other is a second tree, built by the calls that built this *)
(* one up to some point, for == to compare with.                           *)
(***************************************************************************)
EXTENDS Integers, Sequences, FiniteSets, TLC

VARIABLES root, nodes, free_ids, op, res, ret, calls, pre, out, other

vars == <<root, nodes, free_ids, op, res, ret, calls, pre, out, other>>

\* Bound on the length of Tree::nodes.
MaxNodes == 3

\* Node data ranges over 0 .. MaxData.
MaxData == 0

Data == 0 .. MaxData

\* Bound on the length of a children list (a list can repeat a handle).
MaxChildren == 3

\* Bound on the number of public calls made on the tree.
MaxCalls == 3

\* Bound on the number of nodes of a tree grown by insert calls alone.
MaxGrown == 4

\* Bound on the number of remove_node / move_node calls made on a grown tree.
GrownCalls == 2

\* Bound on the number of nodes of a tree grown before a second tree is
\* compared with it.
MaxEqNodes == 2

\* Bound on the number of nodes of a tree whose children lists are sorted;
\* the data of its nodes ranges over 0 .. MaxSortData.
MaxSortNodes == 4

MaxSortData == 1

\* Handles a caller can pass: every index a slot can have, and one more.
Handles == 0 .. MaxNodes

\* Option::None for an Option<NodeId>.
NoneId == -1

\* Node::new(data)
NewNode(d) == [some |-> TRUE, data |-> d, parent |-> NoneId, children |-> <<>>]

\* The None slot of Vec<Option<Node<T>>>.
NoneSlot == [some |-> FALSE, data |-> 0, parent |-> NoneId, children |-> <<>>]

\* The tree held by the variables, as a running machine.
T == [root |-> root, nodes |-> nodes, free_ids |-> free_ids, st |-> "run"]

Running(m) == m.st = "run"

Panic(m) == [m EXCEPT !.st = "panic"]

Diverge(m) == [m EXCEPT !.st = "diverge"]

\* How a handle stands to the storage: live slot, tombstoned slot, or an
\* index at or past the end of the storage.
Kind(m, h) ==
    IF h = NoneId THEN "none"
    ELSE IF h >= Len(m.nodes) THEN "oob"
    ELSE IF m.nodes[h + 1].some THEN "live"
    ELSE "tomb"

LiveIds(m) == {h \in 0 .. (Len(m.nodes) - 1) : m.nodes[h + 1].some}

----------------------------------------------------------------------------
(* Validity check and accessors                                            *)

\* Tree::is_valid_node_id: the assert lets idx = len through; nodes.get(idx)
\* is None only when idx is not below len.
IsValidNodeId(m, h) ==
    IF ~(h <= Len(m.nodes)) THEN "panic"
    ELSE IF ~(h < Len(m.nodes)) THEN "err"
    ELSE "ok"

\* Tree::get without the final ok_or(NodeIdNoLongerValid): the validity check
\* alone decides.
Get_NoSlotCheck(m, h) == IsValidNodeId(m, h)

\* Tree::get, as the kind of its result.
Get(m, h) ==
    LET v == IsValidNodeId(m, h) IN
    IF v # "ok" THEN v
    ELSE IF m.nodes[h + 1].some THEN "ok" ELSE "err"

\* Tree::get_mut, as the kind of its result.
GetMut(m, h) ==
    LET v == IsValidNodeId(m, h) IN
    IF v # "ok" THEN v
    ELSE IF m.nodes[h + 1].some THEN "ok" ELSE "err"

\* Vec::swap_remove(i) on a vector with i in bounds.
SwapRemove(s, i) ==
    SubSeq([s EXCEPT ![i + 1] = s[Len(s)]], 1, Len(s) - 1)

\* Vec::retain(|c| *c != n)
Retain(s, n) == SelectSeq(s, LAMBDA c : c # n)

----------------------------------------------------------------------------
(* Private mutators of Tree                                                *)

\* Tree::set_as_parent_and_child with the child put first in the children
\* instead of pushed last.
SetAsParentAndChild_Front(m, parent_id, child_id) ==
    IF ~Running(m) THEN m
    ELSE IF GetMut(m, parent_id) # "ok" THEN Panic(m)
    ELSE LET m1 == [m EXCEPT !.nodes[parent_id + 1].children = <<child_id>> \o @] IN
         IF GetMut(m1, child_id) # "ok" THEN Panic(m1)
         ELSE [m1 EXCEPT !.nodes[child_id + 1].parent = parent_id]

\* Tree::set_as_parent_and_child
SetAsParentAndChild(m, parent_id, child_id) ==
    IF ~Running(m) THEN m
    ELSE IF GetMut(m, parent_id) # "ok" THEN Panic(m)
    ELSE LET m1 == [m EXCEPT !.nodes[parent_id + 1].children = Append(@, child_id)] IN
         IF GetMut(m1, child_id) # "ok" THEN Panic(m1)
         ELSE [m1 EXCEPT !.nodes[child_id + 1].parent = parent_id]

\* Tree::detach_from_parent without the retain: the children stay as they
\* are.
DetachFromParent_Keep(m, parent_id, node_id) ==
    IF ~Running(m) THEN m
    ELSE IF GetMut(m, parent_id) # "ok" THEN Panic(m)
    ELSE m

\* Tree::detach_from_parent with the children cleared instead of retained.
DetachFromParent_Clear(m, parent_id, node_id) ==
    IF ~Running(m) THEN m
    ELSE IF GetMut(m, parent_id) # "ok" THEN Panic(m)
    ELSE [m EXCEPT !.nodes[parent_id + 1].children = <<>>]

\* Tree::detach_from_parent
DetachFromParent(m, parent_id, node_id) ==
    IF ~Running(m) THEN m
    ELSE IF GetMut(m, parent_id) # "ok" THEN Panic(m)
    ELSE [m EXCEPT !.nodes[parent_id + 1].children = Retain(@, node_id)]

\* Tree::set_parent
SetParent(m, node_id, parent_id) ==
    IF ~Running(m) THEN m
    ELSE IF GetMut(m, node_id) # "ok" THEN Panic(m)
    ELSE [m EXCEPT !.nodes[node_id + 1].parent = parent_id]

\* Tree::clear_parent
ClearParent(m, node_id) == SetParent(m, node_id, NoneId)

RECURSIVE SetParentOfList(_, _, _)
\* The loop of Tree::set_parent_of_children over the cloned children.
SetParentOfList(m, list, new_parent) ==
    IF list = <<>> THEN m
    ELSE SetParentOfList(SetParent(m, Head(list), new_parent), Tail(list), new_parent)

\* Tree::set_parent_of_children
SetParentOfChildren(m, node_id, new_parent) ==
    IF ~Running(m) THEN m
    ELSE IF Get(m, node_id) # "ok" THEN Panic(m)
    ELSE SetParentOfList(m, m.nodes[node_id + 1].children, new_parent)

\* Tree::clear_parent_of_children left out: the children keep their parent.
ClearParentOfChildren_Skip(m, node_id) == m

\* Tree::clear_parent_of_children
ClearParentOfChildren(m, node_id) == SetParentOfChildren(m, node_id, NoneId)

\* Tree::insert_new_node that never looks at free_ids: always a new slot.
InsertNewNode_AlwaysPush(m, new_node) ==
    [m |-> [m EXCEPT !.nodes = Append(@, new_node)], id |-> Len(m.nodes)]

\* Tree::insert_new_node: the machine after it and the id it returns.
InsertNewNode(m, new_node) ==
    IF m.free_ids = <<>>
    THEN [m |-> [m EXCEPT !.nodes = Append(@, new_node)], id |-> Len(m.nodes)]
    ELSE LET new_node_id == m.free_ids[Len(m.free_ids)]
             popped == [m EXCEPT !.free_ids = SubSeq(@, 1, Len(@) - 1)]
             pushed == Append(m.nodes, new_node)
         IN IF new_node_id >= Len(pushed)
            THEN [m |-> Panic([popped EXCEPT !.nodes = pushed]), id |-> new_node_id]
            ELSE [m |-> [popped EXCEPT !.nodes = SwapRemove(pushed, new_node_id)],
                  id |-> new_node_id]

\* Tree::take_node without the free_ids.push(node_id).
TakeNode_NoFreePush(m, node_id) ==
    LET pushed == Append(m.nodes, NoneSlot) IN
    IF ~Running(m) THEN [m |-> m, node |-> NoneSlot]
    ELSE IF node_id >= Len(pushed)
    THEN [m |-> Panic([m EXCEPT !.nodes = pushed]), node |-> NoneSlot]
    ELSE LET taken == pushed[node_id + 1]
             m1 == [m EXCEPT !.nodes = SwapRemove(pushed, node_id)]
         IN IF ~taken.some THEN [m |-> Panic(m1), node |-> NoneSlot]
            ELSE [m |-> m1, node |-> taken]

\* Tree::take_node: the machine after it and the node it returns.
TakeNode(m, node_id) ==
    LET pushed == Append(m.nodes, NoneSlot) IN
    IF ~Running(m) THEN [m |-> m, node |-> NoneSlot]
    ELSE IF node_id >= Len(pushed)
    THEN [m |-> Panic([m EXCEPT !.nodes = pushed]), node |-> NoneSlot]
    ELSE LET taken == pushed[node_id + 1]
             m1 == [m EXCEPT !.nodes = SwapRemove(pushed, node_id)]
         IN IF ~taken.some THEN [m |-> Panic(m1), node |-> NoneSlot]
            ELSE [m |-> [m1 EXCEPT !.free_ids = Append(@, node_id)], node |-> taken]

\* Tree::remove_node_internal without the reset of self.root.
RemoveNodeInternal_KeepRoot(m, node_id) ==
    IF ~Running(m) THEN [m |-> m, node |-> NoneSlot]
    ELSE
    LET tk == TakeNode(m, node_id)
        m2 == tk.m
        parent_id == tk.node.parent
        m3 == IF ~Running(m2) \/ parent_id = NoneId THEN m2
              ELSE IF GetMut(m2, parent_id) # "ok" THEN Panic(m2)
              ELSE [m2 EXCEPT !.nodes[parent_id + 1].children = Retain(@, node_id)]
    IN [m |-> m3,
        node |-> [tk.node EXCEPT !.children = <<>>, !.parent = NoneId]]

\* Tree::remove_node_internal without node.children_mut().clear() and
\* node.clear_parent() on the node it returns.
RemoveNodeInternal_KeepLinks(m, node_id) ==
    IF ~Running(m) THEN [m |-> m, node |-> NoneSlot]
    ELSE
    LET m1 == IF m.root # NoneId /\ node_id = m.root
              THEN [m EXCEPT !.root = NoneId] ELSE m
        tk == TakeNode(m1, node_id)
        m2 == tk.m
        parent_id == tk.node.parent
        m3 == IF ~Running(m2) \/ parent_id = NoneId THEN m2
              ELSE IF GetMut(m2, parent_id) # "ok" THEN Panic(m2)
              ELSE [m2 EXCEPT !.nodes[parent_id + 1].children = Retain(@, node_id)]
    IN [m |-> m3, node |-> tk.node]

\* Tree::remove_node_internal: the machine after it and the node it returns.
RemoveNodeInternal(m, node_id) ==
    IF ~Running(m) THEN [m |-> m, node |-> NoneSlot]
    ELSE
    LET m1 == IF m.root # NoneId /\ node_id = m.root
              THEN [m EXCEPT !.root = NoneId] ELSE m
        tk == TakeNode(m1, node_id)
        m2 == tk.m
        parent_id == tk.node.parent
        m3 == IF ~Running(m2) \/ parent_id = NoneId THEN m2
              ELSE IF GetMut(m2, parent_id) # "ok" THEN Panic(m2)
              ELSE [m2 EXCEPT !.nodes[parent_id + 1].children = Retain(@, node_id)]
    IN [m |-> m3,
        node |-> [tk.node EXCEPT !.children = <<>>, !.parent = NoneId]]

----------------------------------------------------------------------------
(* Results of the public operations                                        *)

\* What a public call hands back: the machine after it, the kind of result
\* ("ok", "err" for Err(NodeIdNoLongerValid), "panic", "diverge"), and the
\* NodeId / Node carried by an Ok.
Out(m, r, id, node) == [m |-> m, res |-> r, id |-> id, node |-> node]

\* Ok(..) when the body ran to its end, the failure otherwise.
Finish(m, id, node) ==
    IF Running(m) THEN Out(m, "ok", id, node)
    ELSE Out(m, m.st, NoneId, NoneSlot)

\* The `?` on a validity check that did not return Ok(()).
Reject(m, v) == Out(m, v, NoneId, NoneSlot)

----------------------------------------------------------------------------
(* insert                                                                  *)

\* Tree::set_root without set_as_parent_and_child(new_root_id, current_root).
SetRoot_DropOld(m, new_root) ==
    LET ins == InsertNewNode(m, new_root)
        m2 == IF Running(ins.m) THEN [ins.m EXCEPT !.root = ins.id] ELSE ins.m
    IN [m |-> m2, id |-> ins.id]

\* Tree::set_root without self.root = Some(new_root_id).
SetRoot_KeepRoot(m, new_root) ==
    LET ins == InsertNewNode(m, new_root)
        m1 == IF m.root # NoneId
              THEN SetAsParentAndChild(ins.m, ins.id, m.root)
              ELSE ins.m
    IN [m |-> m1, id |-> ins.id]

\* Tree::set_root
SetRoot(m, new_root) ==
    LET ins == InsertNewNode(m, new_root)
        m1 == IF m.root # NoneId
              THEN SetAsParentAndChild(ins.m, ins.id, m.root)
              ELSE ins.m
        m2 == IF Running(m1) THEN [m1 EXCEPT !.root = ins.id] ELSE m1
    IN [m |-> m2, id |-> ins.id]

\* Tree::insert_with_parent without set_as_parent_and_child.
InsertWithParent_Unlinked(m, child, parent_id) ==
    LET ins == InsertNewNode(m, child) IN
    [m |-> ins.m, id |-> ins.id]

\* Tree::insert_with_parent
InsertWithParent(m, child, parent_id) ==
    LET ins == InsertNewNode(m, child) IN
    [m |-> SetAsParentAndChild(ins.m, parent_id, ins.id), id |-> ins.id]

\* Tree::insert; behavior is "AsRoot" or "UnderNode" (with parent_id).
Insert(m, node, behavior, parent_id) ==
    IF behavior = "AsRoot"
    THEN LET r == SetRoot(m, node) IN Finish(r.m, r.id, NoneSlot)
    ELSE LET v == IsValidNodeId(m, parent_id) IN
         IF v # "ok" THEN Reject(m, v)
         ELSE LET r == InsertWithParent(m, node, parent_id) IN
              Finish(r.m, r.id, NoneSlot)

----------------------------------------------------------------------------
(* remove_node                                                             *)

\* The loop of Tree::remove_node_lift_children left out: no child is handed
\* to the parent.
SetAsParentOfList_Skip(m, parent_id, list) == m

RECURSIVE SetAsParentOfList(_, _, _)
\* The loop of Tree::remove_node_lift_children over the cloned children.
SetAsParentOfList(m, parent_id, list) ==
    IF list = <<>> THEN m
    ELSE SetAsParentOfList(SetAsParentAndChild(m, parent_id, Head(list)),
                           parent_id, Tail(list))

\* Tree::remove_node_lift_children
RemoveNodeLiftChildren(m, node_id) ==
    IF Get(m, node_id) # "ok" THEN [m |-> Panic(m), node |-> NoneSlot]
    ELSE LET parent_id == m.nodes[node_id + 1].parent
             m1 == IF parent_id # NoneId
                   THEN SetAsParentOfList(m, parent_id, m.nodes[node_id + 1].children)
                   ELSE ClearParentOfChildren(m, node_id)
         IN RemoveNodeInternal(m1, node_id)

RECURSIVE RemoveNodeDropChildren(_, _)
RECURSIVE DropList(_, _)
\* Tree::remove_node_drop_children
RemoveNodeDropChildren(m, node_id) ==
    IF ~Running(m) THEN [m |-> m, node |-> NoneSlot]
    ELSE IF GetMut(m, node_id) # "ok" THEN [m |-> Panic(m), node |-> NoneSlot]
    ELSE LET children == m.nodes[node_id + 1].children
             m1 == [m EXCEPT !.nodes[node_id + 1].children = <<>>]
         IN RemoveNodeInternal(DropList(m1, children), node_id)

\* The loop of Tree::remove_node_drop_children left out: the taken children
\* are not removed.
DropList_Skip(m, list) == m

\* The loop of Tree::remove_node_drop_children over the taken children.
DropList(m, list) ==
    IF list = <<>> THEN m
    ELSE DropList(RemoveNodeDropChildren(m, Head(list)).m, Tail(list))

\* Tree::remove_node_orphan_children without clear_parent_of_children.
RemoveNodeOrphanChildren_KeepParents(m, node_id) == RemoveNodeInternal(m, node_id)

\* Tree::remove_node_orphan_children
RemoveNodeOrphanChildren(m, node_id) ==
    RemoveNodeInternal(ClearParentOfChildren(m, node_id), node_id)

\* Tree::remove_node; behavior is "DropChildren", "LiftChildren" or
\* "OrphanChildren".
RemoveNode(m, node_id, behavior) ==
    LET v == IsValidNodeId(m, node_id) IN
    IF v # "ok" THEN Reject(m, v)
    ELSE LET r == CASE behavior = "DropChildren" -> RemoveNodeDropChildren(m, node_id)
                    [] behavior = "LiftChildren" -> RemoveNodeLiftChildren(m, node_id)
                    [] OTHER -> RemoveNodeOrphanChildren(m, node_id)
         IN Finish(r.m, NoneId, r.node)

----------------------------------------------------------------------------
(* move_node                                                               *)

RECURSIVE FindWalk_ReturnParent(_, _, _, _)
\* The recursion of find_subtree_root_between_ids returning Some(lower_parent)
\* in place of Some(lower_id) when the parent is upper_id.
FindWalk_ReturnParent(m, lower_id, upper_id, fuel) ==
    IF Get(m, lower_id) # "ok" THEN [st |-> "panic", id |-> NoneId]
    ELSE LET lower_parent == m.nodes[lower_id + 1].parent IN
         IF lower_parent = NoneId THEN [st |-> "run", id |-> NoneId]
         ELSE IF lower_parent = upper_id THEN [st |-> "run", id |-> lower_parent]
         ELSE IF fuel = 0 THEN [st |-> "diverge", id |-> NoneId]
         ELSE FindWalk_ReturnParent(m, lower_parent, upper_id, fuel - 1)

RECURSIVE FindWalk(_, _, _, _)
\* The recursion of Tree::find_subtree_root_between_ids.  The walk depends
\* only on the current lower_id and the tree does not change under it, so a
\* walk that recursed more often than there are slots has come back to a
\* node it already left and never ends.
FindWalk(m, lower_id, upper_id, fuel) ==
    IF Get(m, lower_id) # "ok" THEN [st |-> "panic", id |-> NoneId]
    ELSE LET lower_parent == m.nodes[lower_id + 1].parent IN
         IF lower_parent = NoneId THEN [st |-> "run", id |-> NoneId]
         ELSE IF lower_parent = upper_id THEN [st |-> "run", id |-> lower_id]
         ELSE IF fuel = 0 THEN [st |-> "diverge", id |-> NoneId]
         ELSE FindWalk(m, lower_parent, upper_id, fuel - 1)

\* Tree::find_subtree_root_between_ids
FindSubtreeRootBetweenIds(m, lower_id, upper_id) ==
    FindWalk(m, lower_id, upper_id, Len(m.nodes))

\* Tree::move_node_to_parent
MoveNodeToParent(m, node_id, parent_id) ==
    IF ~Running(m) THEN m
    ELSE
    LET f == FindSubtreeRootBetweenIds(m, parent_id, node_id) IN
    IF f.st = "panic" THEN Panic(m)
    ELSE IF f.st = "diverge" THEN Diverge(m)
    ELSE
    LET m1 ==
          IF f.id # NoneId
          THEN \* a move "down" the tree
               IF m.root = node_id
               THEN LET a == DetachFromParent(m, node_id, f.id)
                        b == ClearParent(a, f.id)
                    IN IF Running(b) THEN [b EXCEPT !.root = f.id] ELSE b
               ELSE IF Get(m, node_id) # "ok" THEN Panic(m)
               ELSE LET old_parent == m.nodes[node_id + 1].parent
                        a == IF old_parent # NoneId
                             THEN SetAsParentAndChild(
                                      DetachFromParent(m, old_parent, node_id),
                                      old_parent, f.id)
                             ELSE ClearParent(m, f.id)
                    IN DetachFromParent(a, node_id, f.id)
          ELSE \* a move "across" or "up" the tree
               IF Get(m, node_id) # "ok" THEN Panic(m)
               ELSE LET old_parent == m.nodes[node_id + 1].parent IN
                    IF old_parent # NoneId
                    THEN DetachFromParent(m, old_parent, node_id)
                    ELSE m
    IN SetAsParentAndChild(m1, parent_id, node_id)

\* Tree::move_node_to_root
MoveNodeToRoot(m, node_id) ==
    IF Get(m, node_id) # "ok" THEN Panic(m)
    ELSE
    LET old_root == m.root
        parent_id == m.nodes[node_id + 1].parent
        a == IF parent_id # NoneId THEN DetachFromParent(m, parent_id, node_id) ELSE m
        b == ClearParent(a, node_id)
        c == IF Running(b) THEN [b EXCEPT !.root = node_id] ELSE b
    IN IF old_root # NoneId THEN MoveNodeToParent(c, old_root, node_id) ELSE c

\* Tree::move_node; behavior is "ToRoot" or "ToParent" (with parent_id).
MoveNode(m, node_id, behavior, parent_id) ==
    LET v == IsValidNodeId(m, node_id) IN
    IF v # "ok" THEN Reject(m, v)
    ELSE IF behavior = "ToRoot"
    THEN Finish(MoveNodeToRoot(m, node_id), NoneId, NoneSlot)
    ELSE Finish(MoveNodeToParent(m, node_id, parent_id), NoneId, NoneSlot)

----------------------------------------------------------------------------
(* sort_children_by, sort_children_by_data                                 *)

\* Vec<NodeId>::cmp, the lexicographic order of the derived Ord.
SeqLess(a, b) ==
    \/ /\ Len(a) < Len(b)
       /\ \A k \in 1 .. Len(a) : a[k] = b[k]
    \/ \E k \in 1 .. Len(a) :
          /\ k <= Len(b)
          /\ a[k] < b[k]
          /\ \A j \in 1 .. (k - 1) : a[j] = b[j]

\* Node<T>::cmp as derived: data, then parent (None below Some), then children.
NodeLess(x, y) ==
    \/ x.data < y.data
    \/ /\ x.data = y.data
       /\ \/ x.parent < y.parent
          \/ x.parent = y.parent /\ SeqLess(x.children, y.children)

\* The comparators a caller passes to sort_children_by: by data, ascending
\* or descending.
Comparators == {"asc", "desc"}

CompareLess(cmp, x, y) ==
    IF cmp = "asc" THEN x.data < y.data ELSE y.data < x.data

\* slice::sort_by as an unstable sort: elements the order does not separate
\* come out in the reverse of their original order.
StableSort_TiesReversed(ids, less) ==
    LET n == Len(ids)
        rank(i) == Cardinality({j \in 1 .. n :
                       \/ less[<<ids[j], ids[i]>>] /\ j # i
                       \/ ~less[<<ids[i], ids[j]>>] /\ ~less[<<ids[j], ids[i]>>] /\ j > i})
    IN [k \in 1 .. n |-> ids[CHOOSE i \in 1 .. n : rank(i) = k - 1]]

\* slice::sort_by / sort_by_key: the stable sort of ids by the order `less`
\* (a function on pairs of ids) holds among them.
StableSort(ids, less) ==
    LET n == Len(ids)
        rank(i) == Cardinality({j \in 1 .. n :
                       \/ less[<<ids[j], ids[i]>>] /\ j # i
                       \/ ~less[<<ids[i], ids[j]>>] /\ ~less[<<ids[j], ids[i]>>] /\ j < i})
    IN [k \in 1 .. n |-> ids[CHOOSE i \in 1 .. n : rank(i) = k - 1]]

\* The order a sort applies to two nodes: the caller's comparator for
\* sort_children_by, Node's derived Ord (the key of sort_by_key) for
\* sort_children_by_data.
OrderLess(order, x, y) ==
    IF order = "node" THEN NodeLess(x, y) ELSE CompareLess(order, x, y)

\* The body shared by the two sorts: take_children, sort (every element of
\* a slice of two or more is looked up by the comparison), set_children.
SortTaken(m, node_id, order) ==
    IF GetMut(m, node_id) # "ok" THEN Panic(m)
    ELSE
    LET children == m.nodes[node_id + 1].children
        m1 == [m EXCEPT !.nodes[node_id + 1].children = <<>>]
        ids == {children[k] : k \in 1 .. Len(children)}
    IN IF Len(children) >= 2 /\ \E c \in ids : Get(m1, c) # "ok" THEN Panic(m1)
       ELSE IF Len(children) < 2
       THEN [m1 EXCEPT !.nodes[node_id + 1].children = children]
       ELSE LET less == [pr \in ids \X ids |->
                            OrderLess(order, m1.nodes[pr[1] + 1], m1.nodes[pr[2] + 1])]
            IN [m1 EXCEPT !.nodes[node_id + 1].children = StableSort(children, less)]

\* Tree::sort_children_by
SortChildrenBy(m, node_id, cmp) ==
    LET v == IsValidNodeId(m, node_id) IN
    IF v # "ok" THEN Reject(m, v)
    ELSE Finish(SortTaken(m, node_id, cmp), NoneId, NoneSlot)

\* Tree::sort_children_by_data
SortChildrenByData(m, node_id) ==
    LET v == IsValidNodeId(m, node_id) IN
    IF v # "ok" THEN Reject(m, v)
    ELSE Finish(SortTaken(m, node_id, "node"), NoneId, NoneSlot)

----------------------------------------------------------------------------
(* Accessors and traversal producers, as public calls                      *)

\* Tree::get as a public call: Ok carries the node of the slot.
GetCall(m, h) ==
    LET g == Get(m, h) IN
    IF g = "ok" THEN Out(m, "ok", NoneId, m.nodes[h + 1]) ELSE Reject(m, g)

\* Tree::get_mut as a public call: Ok carries the node of the slot.
GetMutCall(m, h) ==
    LET g == GetMut(m, h) IN
    IF g = "ok" THEN Out(m, "ok", NoneId, m.nodes[h + 1]) ELSE Reject(m, g)

\* Children::new / ChildrenIds::new: get(node_id).expect(..)
ChildrenNew(m, h) == IF Get(m, h) # "ok" THEN Panic(m) ELSE m

\* Tree::children and Tree::children_ids
ChildrenCall(m, h) ==
    LET v == IsValidNodeId(m, h) IN
    IF v # "ok" THEN Reject(m, v) ELSE Finish(ChildrenNew(m, h), NoneId, NoneSlot)

\* Tree::ancestors and Tree::ancestor_ids: the constructors only store the id.
AncestorsCall(m, h) ==
    LET v == IsValidNodeId(m, h) IN
    IF v # "ok" THEN Reject(m, v) ELSE Finish(m, NoneId, NoneSlot)

\* Tree::traverse_pre_order and Tree::traverse_pre_order_ids: the
\* constructors only queue the id.
TraversePreOrderCall(m, h) ==
    LET v == IsValidNodeId(m, h) IN
    IF v # "ok" THEN Reject(m, v) ELSE Finish(m, NoneId, NoneSlot)

----------------------------------------------------------------------------
(* height and the iterators run to their end                               *)

\* std::cmp::max folded over the values of S, from 0.
MaxOf(S) == CHOOSE x \in S \cup {0} : \A y \in S \cup {0} : y <= x

RECURSIVE HeightOfNode(_, _, _)
RECURSIVE HeightOfNode_LastChild(_, _, _)
\* Tree::height_of_node with h = self.height_of_node(n) in place of the max:
\* the height below the last child decides.
HeightOfNode_LastChild(m, node, depth) ==
    IF Get(m, node) # "ok" THEN [st |-> "panic", n |-> 0]
    ELSE IF depth > Len(m.nodes) THEN [st |-> "diverge", n |-> 0]
    ELSE LET kids == m.nodes[node + 1].children
             sub == [k \in 1 .. Len(kids) |->
                        HeightOfNode_LastChild(m, kids[k], depth + 1)]
             bad == {k \in 1 .. Len(kids) : sub[k].st # "run"}
         IN IF bad # {}
            THEN [st |-> sub[CHOOSE k \in bad : \A j \in bad : k <= j].st, n |-> 0]
            ELSE [st |-> "run",
                  n |-> (IF kids = <<>> THEN 0 ELSE sub[Len(kids)].n) + 1]

\* Tree::height_of_node; depth counts the calls on the stack.  A recursion
\* deeper than the storage is long has come back to a node of its own path
\* and never returns.
HeightOfNode(m, node, depth) ==
    IF Get(m, node) # "ok" THEN [st |-> "panic", n |-> 0]
    ELSE IF depth > Len(m.nodes) THEN [st |-> "diverge", n |-> 0]
    ELSE LET kids == m.nodes[node + 1].children
             sub == [k \in 1 .. Len(kids) |-> HeightOfNode(m, kids[k], depth + 1)]
             bad == {k \in 1 .. Len(kids) : sub[k].st # "run"}
         IN IF bad # {}
            THEN [st |-> sub[CHOOSE k \in bad : \A j \in bad : k <= j].st, n |-> 0]
            ELSE [st |-> "run", n |-> MaxOf({sub[k].n : k \in 1 .. Len(kids)}) + 1]

\* Tree::height
Height(m) ==
    IF m.root = NoneId THEN [st |-> "run", n |-> 0]
    ELSE HeightOfNode(m, m.root, 1)

RECURSIVE PreOrderNext(_, _, _)
RECURSIVE PreOrderNext_PushBack(_, _, _)
\* PreOrderTraversalIds::next with the children pushed at the back of the
\* deque instead of its front.
PreOrderNext_PushBack(m, data, acc) ==
    IF data = <<>> THEN [st |-> "run", ids |-> acc]
    ELSE LET node_id == Head(data).id
             g == Get(m, node_id)
         IN IF g = "panic" THEN [st |-> "panic", ids |-> acc]
            ELSE IF g = "err" THEN [st |-> "run", ids |-> acc]
            ELSE IF Head(data).depth > Len(m.nodes)
            THEN [st |-> "diverge", ids |-> acc]
            ELSE LET kids == m.nodes[node_id + 1].children
                     front == [k \in 1 .. Len(kids) |->
                                  [id |-> kids[k], depth |-> Head(data).depth + 1]]
                 IN PreOrderNext_PushBack(m, Tail(data) \o front, Append(acc, node_id))

\* PreOrderTraversalIds::next (PreOrderTraversal::next for the nodes) called
\* until it returns None: data is the deque, acc the handles yielded so far.
\* Each queued handle carries the length of the path that queued it; a path
\* longer than the storage has come back to one of its own nodes, and the
\* traversal never ends.
PreOrderNext(m, data, acc) ==
    IF data = <<>> THEN [st |-> "run", ids |-> acc]
    ELSE LET node_id == Head(data).id
             g == Get(m, node_id)
         IN IF g = "panic" THEN [st |-> "panic", ids |-> acc]
            ELSE IF g = "err" THEN [st |-> "run", ids |-> acc]
            ELSE IF Head(data).depth > Len(m.nodes)
            THEN [st |-> "diverge", ids |-> acc]
            ELSE LET kids == m.nodes[node_id + 1].children
                     front == [k \in 1 .. Len(kids) |->
                                  [id |-> kids[k], depth |-> Head(data).depth + 1]]
                 IN PreOrderNext(m, front \o Tail(data), Append(acc, node_id))

\* PreOrderTraversalIds::new followed by next until None.
PreOrderTraversalIds(m, node_id) ==
    PreOrderNext(m, <<[id |-> node_id, depth |-> 1]>>, <<>>)

RECURSIVE AncestorsIdsNext(_, _, _)
RECURSIVE AncestorsIdsNext_StopEarly(_, _, _)
\* AncestorsIds::next that also looks at the parent's parent before it
\* yields: the parentless node at the top is not yielded.
AncestorsIdsNext_StopEarly(m, current, acc) ==
    LET g == Get(m, current) IN
    IF g = "panic" THEN [st |-> "panic", ids |-> acc]
    ELSE IF g = "err" THEN [st |-> "run", ids |-> acc]
    ELSE LET parent_id == m.nodes[current + 1].parent IN
         IF parent_id = NoneId THEN [st |-> "run", ids |-> acc]
         ELSE IF Get(m, parent_id) = "ok" /\ m.nodes[parent_id + 1].parent = NoneId
         THEN [st |-> "run", ids |-> acc]
         ELSE IF Len(acc) >= Len(m.nodes) THEN [st |-> "diverge", ids |-> acc]
         ELSE AncestorsIdsNext_StopEarly(m, parent_id, Append(acc, parent_id))

\* AncestorsIds::next called until it returns None: current is the stored
\* node_id.  More handles than the storage is long means the parent links
\* form a cycle, and the iterator never ends.
AncestorsIdsNext(m, current, acc) ==
    LET g == Get(m, current) IN
    IF g = "panic" THEN [st |-> "panic", ids |-> acc]
    ELSE IF g = "err" THEN [st |-> "run", ids |-> acc]
    ELSE LET parent_id == m.nodes[current + 1].parent IN
         IF parent_id = NoneId THEN [st |-> "run", ids |-> acc]
         ELSE IF Len(acc) >= Len(m.nodes) THEN [st |-> "diverge", ids |-> acc]
         ELSE AncestorsIdsNext(m, parent_id, Append(acc, parent_id))

RECURSIVE AncestorsNext(_, _, _)
\* Ancestors::next called until it returns None: as AncestorsIds::next, but
\* the parent is looked up before it is yielded, and a parent that get
\* refuses ends the iteration.
AncestorsNext(m, current, acc) ==
    LET g == Get(m, current) IN
    IF g = "panic" THEN [st |-> "panic", ids |-> acc]
    ELSE IF g = "err" THEN [st |-> "run", ids |-> acc]
    ELSE LET parent_id == m.nodes[current + 1].parent IN
         IF parent_id = NoneId THEN [st |-> "run", ids |-> acc]
         ELSE IF Get(m, parent_id) = "panic" THEN [st |-> "panic", ids |-> acc]
         ELSE IF Get(m, parent_id) = "err" THEN [st |-> "run", ids |-> acc]
         ELSE IF Len(acc) >= Len(m.nodes) THEN [st |-> "diverge", ids |-> acc]
         ELSE AncestorsNext(m, parent_id, Append(acc, parent_id))

\* The writes of write_formatted for one node with the test of last[level - 1]
\* left out: every connector is the tee.
FormattedLine_AlwaysTee(level, last, data) ==
    [indent |-> [i \in 1 .. (level - 1) |-> IF last[i] THEN "    " ELSE "|   "],
     branch |-> IF level > 0 THEN "|-- " ELSE "",
     data   |-> data]

\* What write_formatted writes for one node: the indentation written by the
\* loop over 1..level ("    " below a last child, "|   " for the source's
\* vertical bar otherwise), the connector ("+-- " for the source's corner on
\* a last child, "|-- " for its tee otherwise, nothing at level 0) and the
\* node's data, ended by writeln.
FormattedLine(level, last, data) ==
    [indent |-> [i \in 1 .. (level - 1) |-> IF last[i] THEN "    " ELSE "|   "],
     branch |-> IF level > 0 THEN (IF last[level] THEN "+-- " ELSE "|-- ") ELSE "",
     data   |-> data]

RECURSIVE WriteFormattedLoop(_, _, _)
\* The while-let loop of Tree::write_formatted: stack holds (node_id, childn,
\* level, last) with its top at the end, lines what has been written.  A
\* level above the length of the storage is reached only along a cycle of
\* children, where the loop never ends.
WriteFormattedLoop(m, stack, lines) ==
    IF stack = <<>> THEN [st |-> "run", lines |-> lines]
    ELSE
    LET top == stack[Len(stack)]
        rest == SubSeq(stack, 1, Len(stack) - 1)
    IN IF Get(m, top.node_id) # "ok" THEN [st |-> "panic", lines |-> lines]
       ELSE IF top.level > Len(m.nodes) THEN [st |-> "diverge", lines |-> lines]
       ELSE
       LET node == m.nodes[top.node_id + 1]
           written == IF top.childn = 0
                      THEN Append(lines, FormattedLine(top.level, top.last, node.data))
                      ELSE lines
           skipped == SubSeq(node.children, top.childn + 1, Len(node.children))
       IN IF skipped = <<>> THEN WriteFormattedLoop(m, rest, written)
          ELSE IF Len(skipped) >= 2
          THEN WriteFormattedLoop(m,
                   rest \o <<[top EXCEPT !.childn = @ + 1],
                             [node_id |-> skipped[1], childn |-> 0,
                              level |-> top.level + 1,
                              last |-> Append(top.last, FALSE)]>>,
                   written)
          ELSE WriteFormattedLoop(m,
                   Append(rest, [node_id |-> skipped[1], childn |-> 0,
                                 level |-> top.level + 1,
                                 last |-> Append(top.last, TRUE)]),
                   written)

\* Tree::write_formatted: the lines written to w.
WriteFormatted(m) ==
    IF m.root = NoneId THEN [st |-> "run", lines |-> <<>>]
    ELSE WriteFormattedLoop(m, <<[node_id |-> m.root, childn |-> 0, level |-> 0,
                                   last |-> <<>>]>>, <<>>)

----------------------------------------------------------------------------
(* impl PartialEq for Tree                                                 *)

\* self.nodes.iter().enumerate().filter_map(..): the indices of the Some
\* slots, in storage order.
LiveSeq(m) ==
    LET IsSome(h) == m.nodes[h + 1].some IN
    SelectSeq([k \in 1 .. Len(m.nodes) |-> k - 1], IsSome)

\* node.parent.as_ref().and_then(|x| tree.get(x).ok()): the parent's handle
\* for a Some, NoneId for a None.
ParentNode(m, h) ==
    LET x == m.nodes[h + 1].parent IN
    IF x = NoneId THEN [st |-> "run", id |-> NoneId]
    ELSE IF Get(m, x) = "panic" THEN [st |-> "panic", id |-> NoneId]
    ELSE IF Get(m, x) = "err" THEN [st |-> "run", id |-> NoneId]
    ELSE [st |-> "run", id |-> x]

\* Node::eq replaced by the comparison of every field.
NodeEq_WholeNode(x, y) == x = y

\* Node::eq: the data alone.
NodeEq(x, y) == x.data = y.data

\* Option<&Node<T>>'s ==, on the handles ParentNode gives.
ParentEq(a, p, b, q) ==
    IF p = NoneId \/ q = NoneId THEN p = q
    ELSE NodeEq(a.nodes[p + 1], b.nodes[q + 1])

\* Tree::eq without the comparison of the slot indices.
TreeEq_AnyIndex(a, b) ==
    LET la == LiveSeq(a)
        lb == LiveSeq(b)
    IN IF Len(la) # Len(lb) THEN [st |-> "run", eq |-> FALSE]
       ELSE
       LET turn(k) ==
               LET p == ParentNode(a, la[k])
                   q == ParentNode(b, lb[k])
               IN IF p.st = "panic" \/ q.st = "panic" THEN "panic"
                  ELSE IF \/ ~NodeEq(a.nodes[la[k] + 1], b.nodes[lb[k] + 1])
                          \/ ~ParentEq(a, p.id, b, q.id)
                  THEN "ne"
                  ELSE "eq"
           stops == {k \in 1 .. Len(la) : turn(k) # "eq"}
       IN IF stops = {} THEN [st |-> "run", eq |-> TRUE]
          ELSE LET k == CHOOSE j \in stops : \A i \in stops : j <= i IN
               IF turn(k) = "panic" THEN [st |-> "panic", eq |-> FALSE]
               ELSE [st |-> "run", eq |-> FALSE]

\* Tree::eq(a, b): how it ends and what it returns.
TreeEq(a, b) ==
    LET la == LiveSeq(a)
        lb == LiveSeq(b)
    IN IF Len(la) # Len(lb) THEN [st |-> "run", eq |-> FALSE]
       ELSE
       LET turn(k) ==
               LET p == ParentNode(a, la[k])
                   q == ParentNode(b, lb[k])
               IN IF p.st = "panic" \/ q.st = "panic" THEN "panic"
                  ELSE IF \/ la[k] # lb[k]
                          \/ ~NodeEq(a.nodes[la[k] + 1], b.nodes[lb[k] + 1])
                          \/ ~ParentEq(a, p.id, b, q.id)
                  THEN "ne"
                  ELSE "eq"
           stops == {k \in 1 .. Len(la) : turn(k) # "eq"}
       IN IF stops = {} THEN [st |-> "run", eq |-> TRUE]
          ELSE LET k == CHOOSE j \in stops : \A i \in stops : j <= i IN
               IF turn(k) = "panic" THEN [st |-> "panic", eq |-> FALSE]
               ELSE [st |-> "run", eq |-> FALSE]

----------------------------------------------------------------------------
(* The state machine: one step per public call                             *)

RemoveBehaviors == {"DropChildren", "LiftChildren", "OrphanChildren"}

\* The call a step made: its name and behavior, its handle arguments (h the
\* node or starting handle, p the UnderNode / ToParent handle), the data of
\* an inserted node, and how h and p stood to the storage when it was made.
OpRec(name, beh, h, p, d) ==
    [name |-> name, beh |-> beh, h |-> h, p |-> p, d |-> d,
     hk |-> Kind(T, h), pk |-> Kind(T, p)]

NoRet == [id |-> NoneId, node |-> NoneSlot]

\* The history variable where the tree before a call is not recorded.
NoPre == [rec |-> FALSE, root |-> NoneId, nodes |-> <<>>, free_ids |-> <<>>]

\* The tree held by the variables, as a recorded history.
PreOf(r, n, f) == [rec |-> TRUE, root |-> r, nodes |-> n, free_ids |-> f]

\* The process is gone after a panic or a call that never returns; calls is
\* the number of public calls made so far.
Alive == res \notin {"panic", "diverge"} /\ calls < MaxCalls

\* insert_new_node has a slot to use within the bound on the storage.
HasRoom == free_ids # <<>> \/ Len(nodes) < MaxNodes

\* Every children list the call leaves is within the bound.
WithinBounds(m) ==
    \A i \in 1 .. Len(m.nodes) : Len(m.nodes[i].children) <= MaxChildren

\* No second tree has been built.
NoOther == [rec |-> FALSE, first |-> FALSE, root |-> NoneId, nodes |-> <<>>,
            free_ids |-> <<>>]

\* What a call that is not a reading call leaves in out.
NoOut == [n |-> 0, ids |-> <<>>, lines |-> <<>>]

\* The step of a public call: o is what the call hands back, rec the call,
\* v what it produced.
ApplyOut(o, rec, v) ==
    /\ WithinBounds(o.m)
    /\ root' = o.m.root
    /\ nodes' = o.m.nodes
    /\ free_ids' = o.m.free_ids
    /\ res' = o.res
    /\ ret' = [id |-> o.id, node |-> o.node]
    /\ op' = rec
    /\ calls' = calls + 1
    /\ pre' = IF pre.rec THEN PreOf(root, nodes, free_ids) ELSE pre
    /\ out' = v
    /\ other' = other

Apply(o, rec) == ApplyOut(o, rec, NoOut)

\* Tree::new(), or TreeBuilder::new().with_root(Node::new(d)).build()
Init ==
    /\ \/ root = NoneId /\ nodes = <<>>
       \/ \E d \in Data : root = 0 /\ nodes = <<NewNode(d)>>
    /\ free_ids = <<>>
    /\ op = [name |-> "new", beh |-> "", h |-> NoneId, p |-> NoneId, d |-> 0,
             hk |-> "none", pk |-> "none"]
    /\ res = "ok"
    /\ ret = NoRet
    /\ calls = 0
    /\ pre = NoPre
    /\ out = NoOut
    /\ other = NoOther

InsertAsRootStep(d) ==
    /\ Alive
    /\ HasRoom
    /\ Apply(Insert(T, NewNode(d), "AsRoot", NoneId),
             OpRec("insert", "AsRoot", NoneId, NoneId, d))

InsertUnderNodeStep(d, p) ==
    /\ Alive
    /\ IsValidNodeId(T, p) = "ok" => HasRoom
    /\ Apply(Insert(T, NewNode(d), "UnderNode", p),
             OpRec("insert", "UnderNode", NoneId, p, d))

RemoveNodeStep(h, beh) ==
    /\ Alive
    /\ Apply(RemoveNode(T, h, beh), OpRec("remove_node", beh, h, NoneId, 0))

MoveToRootStep(h) ==
    /\ Alive
    /\ Apply(MoveNode(T, h, "ToRoot", NoneId),
             OpRec("move_node", "ToRoot", h, NoneId, 0))

MoveToParentStep(h, p) ==
    /\ Alive
    /\ Apply(MoveNode(T, h, "ToParent", p),
             OpRec("move_node", "ToParent", h, p, 0))

SortChildrenByStep(h, cmp) ==
    /\ Alive
    /\ Apply(SortChildrenBy(T, h, cmp), OpRec("sort_children_by", cmp, h, NoneId, 0))

SortChildrenByDataStep(h) ==
    /\ Alive
    /\ Apply(SortChildrenByData(T, h),
             OpRec("sort_children_by_data", "", h, NoneId, 0))

GetStep(h) ==
    /\ Alive
    /\ Apply(GetCall(T, h), OpRec("get", "", h, NoneId, 0))

GetMutStep(h) ==
    /\ Alive
    /\ Apply(GetMutCall(T, h), OpRec("get_mut", "", h, NoneId, 0))

ChildrenStep(h) ==
    /\ Alive
    /\ Apply(ChildrenCall(T, h), OpRec("children", "", h, NoneId, 0))

ChildrenIdsStep(h) ==
    /\ Alive
    /\ Apply(ChildrenCall(T, h), OpRec("children_ids", "", h, NoneId, 0))

AncestorsStep(h) ==
    /\ Alive
    /\ Apply(AncestorsCall(T, h), OpRec("ancestors", "", h, NoneId, 0))

AncestorIdsStep(h) ==
    /\ Alive
    /\ Apply(AncestorsCall(T, h), OpRec("ancestor_ids", "", h, NoneId, 0))

TraversePreOrderStep(h) ==
    /\ Alive
    /\ Apply(TraversePreOrderCall(T, h), OpRec("traverse_pre_order", "", h, NoneId, 0))

TraversePreOrderIdsStep(h) ==
    /\ Alive
    /\ Apply(TraversePreOrderCall(T, h),
             OpRec("traverse_pre_order_ids", "", h, NoneId, 0))

\* Every public call, with any handle a caller can hold or fabricate.
Next ==
    \/ \E d \in Data : InsertAsRootStep(d)
    \/ \E d \in Data, p \in Handles : InsertUnderNodeStep(d, p)
    \/ \E h \in Handles, beh \in RemoveBehaviors : RemoveNodeStep(h, beh)
    \/ \E h \in Handles : MoveToRootStep(h)
    \/ \E h \in Handles, p \in Handles : MoveToParentStep(h, p)
    \/ \E h \in Handles, cmp \in Comparators : SortChildrenByStep(h, cmp)
    \/ \E h \in Handles : SortChildrenByDataStep(h)
    \/ \E h \in Handles : GetStep(h)
    \/ \E h \in Handles : GetMutStep(h)
    \/ \E h \in Handles : ChildrenStep(h)
    \/ \E h \in Handles : ChildrenIdsStep(h)
    \/ \E h \in Handles : AncestorsStep(h)
    \/ \E h \in Handles : AncestorIdsStep(h)
    \/ \E h \in Handles : TraversePreOrderStep(h)
    \/ \E h \in Handles : TraversePreOrderIdsStep(h)

Spec == Init /\ [][Next]_vars

\* insert, remove_node and move_node, called with live handles only.
NextLive ==
    \/ \E d \in Data : InsertAsRootStep(d)
    \/ \E d \in Data, p \in LiveIds(T) : InsertUnderNodeStep(d, p)
    \/ \E h \in LiveIds(T), beh \in RemoveBehaviors : RemoveNodeStep(h, beh)
    \/ \E h \in LiveIds(T) : MoveToRootStep(h)
    \/ \E h \in LiveIds(T), p \in LiveIds(T) : MoveToParentStep(h, p)

SpecLive == Init /\ [][NextLive]_vars

\* Tree::new()
EmptyTree == [root |-> NoneId, nodes |-> <<>>, free_ids |-> <<>>, st |-> "run"]

RECURSIVE GrownTrees(_)
\* The trees of n nodes grown by insert(AsRoot) on Tree::new() followed by
\* insert(UnderNode(p)) calls, p any node already there; the n-th node
\* inserted carries the data n modulo the number of data values.
GrownTrees(n) ==
    IF n = 0 THEN {EmptyTree}
    ELSE IF n = 1 THEN {Insert(EmptyTree, NewNode(0), "AsRoot", NoneId).m}
    ELSE UNION {{Insert(t, NewNode(n % (MaxData + 1)), "UnderNode", p).m :
                    p \in LiveIds(t)} : t \in GrownTrees(n - 1)}

\* A tree grown by inserts, before any remove_node or move_node call.
InitGrown ==
    /\ \E n \in 0 .. MaxGrown : \E t \in GrownTrees(n) :
          /\ root = t.root /\ nodes = t.nodes /\ free_ids = t.free_ids
          /\ pre = PreOf(t.root, t.nodes, t.free_ids)
    /\ op = [name |-> "new", beh |-> "", h |-> NoneId, p |-> NoneId, d |-> 0,
             hk |-> "none", pk |-> "none"]
    /\ res = "ok"
    /\ ret = NoRet
    /\ calls = 0
    /\ out = NoOut
    /\ other = NoOther

\* remove_node and move_node, called with live handles on a grown tree.
NextGrown ==
    \/ \E h \in LiveIds(T), beh \in RemoveBehaviors :
          calls < GrownCalls /\ RemoveNodeStep(h, beh)
    \/ \E h \in LiveIds(T) : calls < GrownCalls /\ MoveToRootStep(h)
    \/ \E h \in LiveIds(T), p \in LiveIds(T) :
          calls < GrownCalls /\ MoveToParentStep(h, p)

SpecGrown == InitGrown /\ [][NextGrown]_vars

\* The iterators run to their end, height and write_formatted: reading calls.
ReadNames == {"height", "traverse_pre_order_ids", "traverse_pre_order",
              "ancestor_ids", "ancestors", "write_formatted",
              "find_subtree_root_between_ids"}

\* The outcome of a reading call that leaves the tree alone: st is how its
\* loop or recursion ended.
ReadOut(st) == Finish([T EXCEPT !.st = st], NoneId, NoneSlot)

HeightStep ==
    /\ res \notin {"panic", "diverge"}
    /\ ApplyOut(ReadOut(Height(T).st), OpRec("height", "", NoneId, NoneId, 0),
                [NoOut EXCEPT !.n = Height(T).n])

\* tree.traverse_pre_order_ids(h) and, on Ok, the iterator run to its end;
\* tree.traverse_pre_order(h) yields the nodes of the same handles.
CollectPreOrderStep(name, h) ==
    /\ res \notin {"panic", "diverge"}
    /\ LET c == TraversePreOrderCall(T, h)
           r == PreOrderTraversalIds(T, h)
       IN IF c.res # "ok"
          THEN ApplyOut(c, OpRec(name, "collect", h, NoneId, 0), NoOut)
          ELSE ApplyOut(ReadOut(r.st), OpRec(name, "collect", h, NoneId, 0),
                        [NoOut EXCEPT !.ids = r.ids])

\* tree.ancestor_ids(h) and, on Ok, the iterator run to its end.
CollectAncestorIdsStep(h) ==
    /\ res \notin {"panic", "diverge"}
    /\ LET c == AncestorsCall(T, h)
           r == AncestorsIdsNext(T, h, <<>>)
       IN IF c.res # "ok"
          THEN ApplyOut(c, OpRec("ancestor_ids", "collect", h, NoneId, 0), NoOut)
          ELSE ApplyOut(ReadOut(r.st), OpRec("ancestor_ids", "collect", h, NoneId, 0),
                        [NoOut EXCEPT !.ids = r.ids])

\* tree.ancestors(h) and, on Ok, the iterator run to its end; the nodes it
\* yields are given by their handles.
CollectAncestorsStep(h) ==
    /\ res \notin {"panic", "diverge"}
    /\ LET c == AncestorsCall(T, h)
           r == AncestorsNext(T, h, <<>>)
       IN IF c.res # "ok"
          THEN ApplyOut(c, OpRec("ancestors", "collect", h, NoneId, 0), NoOut)
          ELSE ApplyOut(ReadOut(r.st), OpRec("ancestors", "collect", h, NoneId, 0),
                        [NoOut EXCEPT !.ids = r.ids])

WriteFormattedStep ==
    /\ res \notin {"panic", "diverge"}
    /\ ApplyOut(ReadOut(WriteFormatted(T).st),
                OpRec("write_formatted", "", NoneId, NoneId, 0),
                [NoOut EXCEPT !.lines = WriteFormatted(T).lines])

\* self.find_subtree_root_between_ids(lower, upper), the search of
\* move_node_to_parent called on its own: out.ids holds the handle of a Some
\* and is empty for None.
FindSubtreeRootStep(lower, upper) ==
    /\ res \notin {"panic", "diverge"}
    /\ LET f == FindSubtreeRootBetweenIds(T, lower, upper) IN
       ApplyOut(ReadOut(f.st),
                OpRec("find_subtree_root_between_ids", "", lower, upper, 0),
                [NoOut EXCEPT !.ids = IF f.id = NoneId THEN <<>> ELSE <<f.id>>])

\* A grown tree, at most one insert, remove_node or move_node made on it
\* with live handles, and then one reading call.
NextRead ==
    \/ \E d \in Data : op.name = "new" /\ InsertAsRootStep(d)
    \/ \E d \in Data, p \in LiveIds(T) : op.name = "new" /\ InsertUnderNodeStep(d, p)
    \/ \E h \in LiveIds(T), beh \in RemoveBehaviors :
          op.name = "new" /\ RemoveNodeStep(h, beh)
    \/ \E h \in LiveIds(T) : op.name = "new" /\ MoveToRootStep(h)
    \/ \E h \in LiveIds(T), p \in LiveIds(T) :
          op.name = "new" /\ MoveToParentStep(h, p)
    \/ op.name \notin ReadNames /\ HeightStep
    \/ \E h \in LiveIds(T) :
          op.name \notin ReadNames /\ CollectPreOrderStep("traverse_pre_order_ids", h)
    \/ \E h \in LiveIds(T) :
          op.name \notin ReadNames /\ CollectPreOrderStep("traverse_pre_order", h)
    \/ \E h \in LiveIds(T) : op.name \notin ReadNames /\ CollectAncestorIdsStep(h)
    \/ \E h \in LiveIds(T) : op.name \notin ReadNames /\ CollectAncestorsStep(h)
    \/ op.name \notin ReadNames /\ WriteFormattedStep
    \/ \E lower \in LiveIds(T), upper \in LiveIds(T) :
          op.name \notin ReadNames /\ FindSubtreeRootStep(lower, upper)

SpecRead == InitGrown /\ [][NextRead]_vars

RECURSIVE SortTrees(_)
\* The trees of n nodes grown by insert(AsRoot) on Tree::new() followed by
\* insert(UnderNode(p)) calls, p any node already there, every inserted node
\* carrying any data of 0 .. MaxSortData.
SortTrees(n) ==
    IF n = 0 THEN {EmptyTree}
    ELSE IF n = 1
    THEN {Insert(EmptyTree, NewNode(d), "AsRoot", NoneId).m : d \in 0 .. MaxSortData}
    ELSE UNION {{Insert(t, NewNode(d), "UnderNode", p).m :
                    p \in LiveIds(t), d \in 0 .. MaxSortData} : t \in SortTrees(n - 1)}

\* A tree grown by inserts, before any sort.
InitSort ==
    /\ \E n \in 0 .. MaxSortNodes : \E t \in SortTrees(n) :
          /\ root = t.root /\ nodes = t.nodes /\ free_ids = t.free_ids
          /\ pre = PreOf(t.root, t.nodes, t.free_ids)
    /\ op = [name |-> "new", beh |-> "", h |-> NoneId, p |-> NoneId, d |-> 0,
             hk |-> "none", pk |-> "none"]
    /\ res = "ok"
    /\ ret = NoRet
    /\ calls = 0
    /\ out = NoOut
    /\ other = NoOther

\* One sort of the children of a live node of a grown tree.
NextSort ==
    \/ \E h \in LiveIds(T), cmp \in Comparators :
          op.name = "new" /\ SortChildrenByStep(h, cmp)
    \/ \E h \in LiveIds(T) : op.name = "new" /\ SortChildrenByDataStep(h)

SpecSort == InitSort /\ [][NextSort]_vars

\* The second tree, as a running machine.
OtherT == [root |-> other.root, nodes |-> other.nodes,
           free_ids |-> other.free_ids, st |-> "run"]

\* A second tree is built by the calls that built this one (as
\* test_partial_eq builds `other`), so it is the tree this one is now; first
\* tells that no call after the growing inserts went into it.
SecondTreeStep ==
    /\ ~other.rec
    /\ res \notin {"panic", "diverge"}
    /\ other' = [rec |-> TRUE, first |-> (op.name = "new"), root |-> root,
                 nodes |-> nodes, free_ids |-> free_ids]
    /\ op' = OpRec("second_tree", "", NoneId, NoneId, 0)
    /\ calls' = calls + 1
    /\ pre' = PreOf(root, nodes, free_ids)
    /\ out' = NoOut
    /\ UNCHANGED <<root, nodes, free_ids, res, ret>>

\* tree == other (beh "self") or other == tree (beh "other"); out.n is 1 for
\* true and 0 for false.
EqStep(side) ==
    /\ other.rec
    /\ res \notin {"panic", "diverge"}
    /\ LET e == IF side = "self" THEN TreeEq(T, OtherT) ELSE TreeEq(OtherT, T) IN
       ApplyOut(ReadOut(e.st), OpRec("eq", side, NoneId, NoneId, 0),
                [NoOut EXCEPT !.n = IF e.eq THEN 1 ELSE 0])

\* A call may change the tree before ==: the first call on the grown tree,
\* the first call after the second tree was built, and one more call when
\* the second tree was built from the grown tree itself.
MayEdit ==
    \/ op.name = "new"
    \/ op.name = "second_tree"
    \/ /\ other.rec /\ other.first
       /\ op.name \notin {"new", "second_tree", "eq"}
       /\ pre.root = other.root /\ pre.nodes = other.nodes
       /\ pre.free_ids = other.free_ids

\* A tree grown by inserts, before a second tree is built.
InitEq ==
    /\ \E n \in 0 .. MaxEqNodes : \E t \in SortTrees(n) :
          /\ root = t.root /\ nodes = t.nodes /\ free_ids = t.free_ids
          /\ pre = PreOf(t.root, t.nodes, t.free_ids)
    /\ op = [name |-> "new", beh |-> "", h |-> NoneId, p |-> NoneId, d |-> 0,
             hk |-> "none", pk |-> "none"]
    /\ res = "ok"
    /\ ret = NoRet
    /\ calls = 0
    /\ out = NoOut
    /\ other = NoOther

\* Calls with live handles on a grown tree, a second tree built along the
\* way, and the two compared.
NextEq ==
    \/ \E d \in Data : MayEdit /\ InsertAsRootStep(d)
    \/ \E d \in Data, p \in LiveIds(T) : MayEdit /\ InsertUnderNodeStep(d, p)
    \/ \E h \in LiveIds(T), beh \in RemoveBehaviors : MayEdit /\ RemoveNodeStep(h, beh)
    \/ \E h \in LiveIds(T) : MayEdit /\ MoveToRootStep(h)
    \/ \E h \in LiveIds(T), p \in LiveIds(T) : MayEdit /\ MoveToParentStep(h, p)
    \/ \E h \in LiveIds(T), cmp \in Comparators : MayEdit /\ SortChildrenByStep(h, cmp)
    \/ SecondTreeStep
    \/ \E side \in {"self", "other"} : op.name # "eq" /\ EqStep(side)

SpecEq == InitEq /\ [][NextEq]_vars

----------------------------------------------------------------------------
(* Structural predicates                                                   *)

\* The last call returned to its caller (Ok or Err).
Returned == res \in {"ok", "err"}

\* The tree after the step, for action formulas.
TreeUnchanged == root' = root /\ nodes' = nodes /\ free_ids' = free_ids

RECURSIVE ClimbEnds(_, _, _)
\* Following parent links upward from cur ends within fuel links.  A climb
\* through distinct nodes passes at most Len(nodes) of them.
ClimbEnds(m, cur, fuel) ==
    IF Kind(m, cur) # "live" THEN TRUE
    ELSE IF fuel = 0 THEN FALSE
    ELSE ClimbEnds(m, m.nodes[cur + 1].parent, fuel - 1)

Acyclic(m) == \A n \in LiveIds(m) : ClimbEnds(m, n, Len(m.nodes))

RootIsParentless(m) ==
    m.root # NoneId =>
        /\ Kind(m, m.root) = "live"
        /\ m.nodes[m.root + 1].parent = NoneId

\* Number of occurrences of id in a children list.
Count(list, id) == Cardinality({k \in 1 .. Len(list) : list[k] = id})

ParentsHaveChild(m) ==
    \A n \in LiveIds(m) :
        LET p == m.nodes[n + 1].parent IN
        p # NoneId =>
            /\ Kind(m, p) = "live"
            /\ Count(m.nodes[p + 1].children, n) = 1

ChildrenHaveParent(m) ==
    \A p \in LiveIds(m) :
        \A k \in 1 .. Len(m.nodes[p + 1].children) :
            LET c == m.nodes[p + 1].children[k] IN
            /\ Kind(m, c) = "live"
            /\ m.nodes[c + 1].parent = p

\* Elements of a sequence.
Range(s) == {s[k] : k \in 1 .. Len(s)}

\* A slot is None exactly when its handle is in the free list, and the free
\* list holds no handle twice and no handle of a live node.
SlotsMatchFreeList(m) ==
    /\ \A h \in 0 .. (Len(m.nodes) - 1) :
          Kind(m, h) = "tomb" <=> Count(m.free_ids, h) >= 1
    /\ \A h \in Range(m.free_ids) :
          /\ Count(m.free_ids, h) = 1
          /\ Kind(m, h) # "live"

\* The tree of the data model: parent links end, a present root is live and
\* parentless, the parent and children relations agree, and the free list
\* names the tombstoned slots.
WellFormed(m) ==
    /\ Acyclic(m)
    /\ RootIsParentless(m)
    /\ ParentsHaveChild(m)
    /\ ChildrenHaveParent(m)
    /\ SlotsMatchFreeList(m)

Last(s) == s[Len(s)]

RECURSIVE ReachesUp(_, _, _, _)
\* Following parent links upward from cur (not counting cur) meets target
\* within fuel links.
ReachesUp(m, cur, target, fuel) ==
    IF Kind(m, cur) # "live" \/ fuel = 0 THEN FALSE
    ELSE LET q == m.nodes[cur + 1].parent IN
         q = target \/ ReachesUp(m, q, target, fuel - 1)

\* p is a proper descendant of h.
IsDescendant(m, p, h) == ReachesUp(m, p, h, Len(m.nodes))

\* The direct child of h on the path from h down to its descendant p.
PathChild(m, p, h) ==
    CHOOSE s \in LiveIds(m) :
        /\ m.nodes[s + 1].parent = h
        /\ (s = p \/ IsDescendant(m, p, s))

\* The recorded tree before the last call, as a running machine.
PreT == [root |-> pre.root, nodes |-> pre.nodes, free_ids |-> pre.free_ids,
         st |-> "run"]

\* The proper descendants of h.
Descendants(m, h) == {n \in LiveIds(m) : IsDescendant(m, n, h)}

\* The step is a returned or failed remove_node(h, beh) made on a tree with
\* h live.
RemoveOnTree(beh) ==
    /\ op'.name = "remove_node"
    /\ op'.beh = beh
    /\ op'.hk = "live"
    /\ WellFormed(T)

\* The step is a returned or failed move_node(h, ToParent(p)) made on a tree
\* with h and p live.
MoveToParentOnTree ==
    /\ op'.name = "move_node"
    /\ op'.beh = "ToParent"
    /\ op'.hk = "live"
    /\ op'.pk = "live"
    /\ WellFormed(T)

----------------------------------------------------------------------------
(* Claims                                                                  *)

\* C1: after any sequence of insert, remove_node and move_node calls made
\* with live handles, following parent links upward from any live node never
\* revisits a node.
C1_Acyclicity == Returned => Acyclic(T)

\* C2: after any sequence of insert, remove_node and move_node calls made
\* with live handles, a root handle that is present refers to a live node
\* whose parent is None.
C2_RootInvariant == Returned => RootIsParentless(T)

\* C3: after any sequence of insert, remove_node and move_node calls made
\* with live handles, (a) every live node with parent Some(p) has p live and
\* occurs exactly once in p's children, and (b) every handle in the children
\* of a live node p is a live node whose parent is Some(p).
C3_ParentChildConsistency ==
    Returned => ParentsHaveChild(T) /\ ChildrenHaveParent(T)

\* C4: insert(node, UnderNode(parent)) with parent's slot tombstoned returns
\* Err(NodeIdNoLongerValid).
C4_InsertUnderTombstoneErr ==
    (op.name = "insert" /\ op.beh = "UnderNode" /\ op.pk = "tomb") => res = "err"

\* C5: insert, remove_node, move_node and the sort_children calls given a
\* handle whose slot is tombstoned are rejected and leave the root, every
\* storage slot and the free list as they were before the call.
C5_HandleErrorsAtomic ==
    [][(/\ op'.name \in {"insert", "remove_node", "move_node",
                         "sort_children_by", "sort_children_by_data"}
        /\ (op'.hk = "tomb" \/ op'.pk = "tomb"))
       => (res' = "err" /\ TreeUnchanged)]_vars

\* C6: a handle whose node was removed stays invalid: once the slot of h is
\* tombstoned (slots are tombstoned by remove_node only), get(h) returns an
\* error in every later state, also after an insert reused the slot.
C6_RemovedHandleStaysInvalid ==
    [][\A h \in Handles : Kind(T, h) = "tomb" => Get(T', h) # "ok"]_vars

\* C7: remove_node(handle, behavior) with handle's slot tombstoned returns
\* Err(NodeIdNoLongerValid) for each of the three behaviors.
C7_RemoveTombstoneErr ==
    (op.name = "remove_node" /\ op.hk = "tomb") => res = "err"

\* C8: move_node given a tombstoned handle, as the node to move or as the
\* ToParent target, returns Err(NodeIdNoLongerValid).
C8_MoveTombstoneErr ==
    (op.name = "move_node" /\ (op.hk = "tomb" \/ op.pk = "tomb")) => res = "err"

\* C9: constructing children, children_ids, ancestors, ancestor_ids,
\* traverse_pre_order or traverse_pre_order_ids with a starting handle whose
\* slot is tombstoned fails with Err(NodeIdNoLongerValid).
C9_ProducerTombstoneErr ==
    (/\ op.name \in {"children", "children_ids", "ancestors", "ancestor_ids",
                     "traverse_pre_order", "traverse_pre_order_ids"}
     /\ op.hk = "tomb") => res = "err"

\* C10: get and get_mut given a handle whose slot is tombstoned return
\* Err(NodeIdNoLongerValid) and leave the tree unchanged; given a live handle
\* they return the node stored in that slot.
C10_GetContract ==
    [][op'.name \in {"get", "get_mut"} =>
         /\ op'.hk = "tomb" => (res' = "err" /\ TreeUnchanged)
         /\ op'.hk = "live" => /\ res' = "ok"
                               /\ ret'.node.some
                               /\ ret'.node = nodes[op'.h + 1]]_vars

\* C10 witness: a get on a tombstoned slot was rejected.
C10_Witness ==
    /\ op.name \in {"get", "get_mut"}
    /\ op.hk = "tomb"
    /\ res = "err"
    /\ free_ids # <<>>

\* C11: in every reachable state each storage slot is live or tombstoned, a
\* slot is tombstoned if and only if its handle is in the free list, each
\* handle occurs in the free list at most once, and no live node's handle is
\* in the free list.
C11_SlotFreeListInvariant == SlotsMatchFreeList(T)

\* C11 witness: an insert reused a freed slot while another slot stays
\* tombstoned and a node is live.
C11_Witness ==
    /\ op.name = "insert"
    /\ res = "ok"
    /\ ret.id < Len(nodes) - 1
    /\ free_ids # <<>>

\* C12: move_node(h, ToParent(p)) on a tree where p is a proper descendant
\* of h, with s the direct child of h on the path to p, returns Ok and
\* afterwards s is not a child of h; s is the root with parent None if h was
\* the root, otherwise s is the last child of h's old parent with that
\* parent, or parentless if h had no parent; and h's parent is p with h the
\* last element of p's children.
C12_MoveDown ==
    [][(MoveToParentOnTree /\ IsDescendant(T, op'.p, op'.h)) =>
         LET h == op'.h
             p == op'.p
             s == PathChild(T, p, h)
             o == nodes[h + 1].parent
         IN /\ res' = "ok"
            /\ Count(nodes'[h + 1].children, s) = 0
            /\ IF root = h
               THEN root' = s /\ nodes'[s + 1].parent = NoneId
               ELSE IF o # NoneId
               THEN /\ nodes'[s + 1].parent = o
                    /\ nodes'[o + 1].children # <<>>
                    /\ Last(nodes'[o + 1].children) = s
                    /\ Count(nodes'[o + 1].children, s) = 1
               ELSE nodes'[s + 1].parent = NoneId
            /\ nodes'[h + 1].parent = p
            /\ nodes'[p + 1].children # <<>>
            /\ Last(nodes'[p + 1].children) = h
            /\ Count(nodes'[p + 1].children, h) = 1]_vars

\* C12 witness: a node that was not the root and whose parent had another
\* child was moved under its descendant, and its child on the path is now
\* the last child of that parent.
C12_Witness ==
    /\ pre.rec
    /\ op.name = "move_node"
    /\ op.beh = "ToParent"
    /\ res = "ok"
    /\ WellFormed(pre)
    /\ Kind(pre, op.h) = "live"
    /\ IsDescendant(pre, op.p, op.h)
    /\ pre.root # op.h
    /\ pre.nodes[op.h + 1].parent # NoneId
    /\ Len(pre.nodes[pre.nodes[op.h + 1].parent + 1].children) >= 2
    /\ Last(nodes[pre.nodes[op.h + 1].parent + 1].children) = PathChild(pre, op.p, op.h)

\* C13: move_node(h, ToParent(p)) on a tree with h and p live and p not a
\* descendant of h returns Ok and afterwards h is absent from the children of
\* its previous parent (when that is another node than p), h's parent is p,
\* and p's children are its previous children without h, in their order,
\* followed by h; so when p was h's parent already, h moves to the last
\* position.
C13_MoveAcross ==
    [][(MoveToParentOnTree /\ ~IsDescendant(T, op'.p, op'.h)) =>
         LET h == op'.h
             p == op'.p
             o == nodes[h + 1].parent
         IN /\ res' = "ok"
            /\ (o # NoneId /\ o # p) => Count(nodes'[o + 1].children, h) = 0
            /\ nodes'[h + 1].parent = p
            /\ nodes'[p + 1].children = Append(Retain(nodes[p + 1].children, h), h)]_vars

\* C13 witness: a node was moved from under another parent to a node that
\* is not its descendant and had two children already.
C13_Witness ==
    /\ pre.rec
    /\ op.name = "move_node"
    /\ op.beh = "ToParent"
    /\ res = "ok"
    /\ WellFormed(pre)
    /\ Kind(pre, op.h) = "live"
    /\ Kind(pre, op.p) = "live"
    /\ op.h # op.p
    /\ ~IsDescendant(pre, op.p, op.h)
    /\ pre.nodes[op.h + 1].parent \notin {NoneId, op.p}
    /\ Len(pre.nodes[op.p + 1].children) >= 2
    /\ nodes[op.p + 1].children = Append(pre.nodes[op.p + 1].children, op.h)

\* C14: move_node(h, ToRoot) on a tree with h live (a descendant of the
\* root, an orphan, or the current root itself) returns Ok and afterwards
\* the root is h, h's parent is None, h is not in its former parent's
\* children, and a previous root other than h is the last child of h with
\* its parent set to h.
C14_MoveToRoot ==
    [][(/\ op'.name = "move_node"
        /\ op'.beh = "ToRoot"
        /\ op'.hk = "live"
        /\ WellFormed(T)) =>
         LET h == op'.h
             o == nodes[h + 1].parent
         IN /\ res' = "ok"
            /\ root' = h
            /\ nodes'[h + 1].parent = NoneId
            /\ o # NoneId => Count(nodes'[o + 1].children, h) = 0
            /\ (root # NoneId /\ root # h) =>
                  /\ nodes'[h + 1].children # <<>>
                  /\ Last(nodes'[h + 1].children) = root
                  /\ nodes'[root + 1].parent = h]_vars

\* C15: a move_node that returns Ok changes neither the set of live
\* handles, nor any node's data, nor the free list; in a move down on a tree
\* the children of h other than the promoted child s stay children of h in
\* their order, and every node that is not h, s, h's old parent or the
\* target p keeps its parent and children.
C15_MoveFrame ==
    [][(op'.name = "move_node" /\ res' = "ok") =>
         /\ Len(nodes') = Len(nodes)
         /\ LiveIds(T') = LiveIds(T)
         /\ \A n \in LiveIds(T) : nodes'[n + 1].data = nodes[n + 1].data
         /\ free_ids' = free_ids
         /\ (MoveToParentOnTree /\ IsDescendant(T, op'.p, op'.h)) =>
               LET h == op'.h
                   p == op'.p
                   s == PathChild(T, p, h)
                   o == nodes[h + 1].parent
               IN /\ nodes'[h + 1].children = Retain(nodes[h + 1].children, s)
                  /\ \A n \in LiveIds(T) \ {h, s, o, p} :
                        /\ nodes'[n + 1].parent = nodes[n + 1].parent
                        /\ nodes'[n + 1].children = nodes[n + 1].children]_vars

\* C15 witness: a node with three children was moved under one of them and
\* kept the two others, which are as they were.
C15_Witness ==
    /\ pre.rec
    /\ op.name = "move_node"
    /\ op.beh = "ToParent"
    /\ res = "ok"
    /\ WellFormed(pre)
    /\ Kind(pre, op.h) = "live"
    /\ IsDescendant(pre, op.p, op.h)
    /\ Len(pre.nodes[op.h + 1].children) = 3
    /\ Len(nodes[op.h + 1].children) = 2
    /\ \A k \in 1 .. 2 :
          nodes[nodes[op.h + 1].children[k] + 1] =
              pre.nodes[nodes[op.h + 1].children[k] + 1]

\* C16: remove_node(h, DropChildren) on a tree with h live returns Ok,
\* tombstones h and every descendant of h (get on each of those handles then
\* fails), removes h from its former parent's children, and leaves every
\* live node outside h's subtree live with its data and parent unchanged.
C16_RemoveDropChildren ==
    [][RemoveOnTree("DropChildren") =>
         LET h == op'.h
             o == nodes[h + 1].parent
             gone == {h} \cup Descendants(T, h)
         IN /\ res' = "ok"
            /\ \A n \in gone : Kind(T', n) = "tomb" /\ Get(T', n) = "err"
            /\ o # NoneId => Count(nodes'[o + 1].children, h) = 0
            /\ \A n \in LiveIds(T) \ gone :
                  /\ Kind(T', n) = "live"
                  /\ nodes'[n + 1].data = nodes[n + 1].data
                  /\ nodes'[n + 1].parent = nodes[n + 1].parent]_vars

\* C16 witness: a node with a parent, a child and a grandchild was removed
\* with DropChildren; the three are tombstoned and the parent is live.
C16_Witness ==
    /\ pre.rec
    /\ op.name = "remove_node"
    /\ op.beh = "DropChildren"
    /\ res = "ok"
    /\ WellFormed(pre)
    /\ Kind(pre, op.h) = "live"
    /\ pre.nodes[op.h + 1].parent # NoneId
    /\ Kind(T, pre.nodes[op.h + 1].parent) = "live"
    /\ \E c \in Descendants(pre, op.h) : \E g \in Descendants(pre, c) :
          /\ Kind(T, c) = "tomb"
          /\ Kind(T, g) = "tomb"
    /\ Kind(T, op.h) = "tomb"

\* C17: remove_node(h, LiftChildren) on a tree where h is live and has
\* parent p returns Ok and afterwards every former direct child of h is live
\* with parent p, p's children are its previous children with h removed
\* followed by h's former children in their order, and h is tombstoned.
C17_RemoveLiftChildren ==
    [][(RemoveOnTree("LiftChildren") /\ nodes[op'.h + 1].parent # NoneId) =>
         LET h == op'.h
             p == nodes[h + 1].parent
             kids == nodes[h + 1].children
         IN /\ res' = "ok"
            /\ \A c \in Range(kids) :
                  /\ Kind(T', c) = "live"
                  /\ nodes'[c + 1].parent = p
            /\ nodes'[p + 1].children = Retain(nodes[p + 1].children, h) \o kids
            /\ Kind(T', h) = "tomb"]_vars

\* C17 witness: a node with a child, first among two or more children of
\* its parent, was removed with LiftChildren, and its child is now the last
\* child of that parent.
C17_Witness ==
    /\ pre.rec
    /\ op.name = "remove_node"
    /\ op.beh = "LiftChildren"
    /\ res = "ok"
    /\ WellFormed(pre)
    /\ Kind(pre, op.h) = "live"
    /\ pre.nodes[op.h + 1].parent # NoneId
    /\ pre.nodes[op.h + 1].children # <<>>
    /\ Len(pre.nodes[pre.nodes[op.h + 1].parent + 1].children) >= 2
    /\ Head(pre.nodes[pre.nodes[op.h + 1].parent + 1].children) = op.h
    /\ Last(nodes[pre.nodes[op.h + 1].parent + 1].children) =
          Last(pre.nodes[op.h + 1].children)

\* C18: remove_node(h, OrphanChildren) on a tree with h live returns Ok and
\* afterwards every former direct child of h is live with parent None and
\* its own children unchanged, h is tombstoned and absent from its former
\* parent's children, and no former child of h is in any children list.
C18_RemoveOrphanChildren ==
    [][RemoveOnTree("OrphanChildren") =>
         LET h == op'.h
             o == nodes[h + 1].parent
             kids == Range(nodes[h + 1].children)
         IN /\ res' = "ok"
            /\ \A c \in kids :
                  /\ Kind(T', c) = "live"
                  /\ nodes'[c + 1].parent = NoneId
                  /\ nodes'[c + 1].children = nodes[c + 1].children
            /\ Kind(T', h) = "tomb"
            /\ o # NoneId => Count(nodes'[o + 1].children, h) = 0
            /\ \A n \in LiveIds(T') : \A c \in kids :
                  Count(nodes'[n + 1].children, c) = 0]_vars

\* C18 witness: a node with a parent and a child that has a child of its
\* own was removed with OrphanChildren; the child is live and parentless.
C18_Witness ==
    /\ pre.rec
    /\ op.name = "remove_node"
    /\ op.beh = "OrphanChildren"
    /\ res = "ok"
    /\ WellFormed(pre)
    /\ Kind(pre, op.h) = "live"
    /\ pre.nodes[op.h + 1].parent # NoneId
    /\ \E c \in Range(pre.nodes[op.h + 1].children) :
          /\ pre.nodes[c + 1].children # <<>>
          /\ Kind(T, c) = "live"
          /\ nodes[c + 1].parent = NoneId
    /\ Kind(T, op.h) = "tomb"

\* C19: for every reachable tree and every live node h that has no parent,
\* remove_node(h, LiftChildren) and remove_node(h, OrphanChildren) give the
\* same result, the same root, storage slots and free list, and the same
\* returned node.
C19_LiftEqualsOrphanWithoutParent ==
    \A h \in LiveIds(T) :
        nodes[h + 1].parent = NoneId =>
            RemoveNode(T, h, "LiftChildren") = RemoveNode(T, h, "OrphanChildren")

\* C19 witness: a parentless node that is not the root and has two children
\* was removed with LiftChildren, and the tree is the one OrphanChildren
\* gives.
C19_Witness ==
    /\ pre.rec
    /\ op.name = "remove_node"
    /\ op.beh = "LiftChildren"
    /\ res = "ok"
    /\ Kind(pre, op.h) = "live"
    /\ pre.nodes[op.h + 1].parent = NoneId
    /\ pre.root # op.h
    /\ Len(pre.nodes[op.h + 1].children) >= 2
    /\ T = RemoveNode(PreT, op.h, "OrphanChildren").m
    /\ ret.node = RemoveNode(PreT, op.h, "OrphanChildren").node

\* C20: a remove_node of the current root that returns, with any of the
\* three behaviors, leaves the tree without a root; on a tree it returns Ok
\* and with LiftChildren or OrphanChildren the former root's children stay
\* live and parentless; and a tree without a root gets one only by
\* insert(AsRoot) or move_node(ToRoot).
C20_RootRemoval ==
    [][/\ (/\ op'.name = "remove_node"
           /\ op'.hk = "live"
           /\ root = op'.h) =>
             /\ res' = "ok" => root' = NoneId
             /\ WellFormed(T) =>
                   /\ res' = "ok"
                   /\ op'.beh \in {"LiftChildren", "OrphanChildren"} =>
                         \A c \in Range(nodes[op'.h + 1].children) :
                             /\ Kind(T', c) = "live"
                             /\ nodes'[c + 1].parent = NoneId
       /\ (root = NoneId /\ root' # NoneId) =>
             \/ op'.name = "insert" /\ op'.beh = "AsRoot"
             \/ op'.name = "move_node" /\ op'.beh = "ToRoot"]_vars

\* C20 witness: the third call on a tree built from a root by two inserts
\* (a tree that has a root) was a remove_node with LiftChildren or
\* OrphanChildren that left no root and two live, parentless nodes, the
\* children of the removed root.
C20_Witness ==
    /\ op.name = "remove_node"
    /\ op.beh \in {"LiftChildren", "OrphanChildren"}
    /\ op.hk = "live"
    /\ res = "ok"
    /\ calls = 3
    /\ Len(nodes) = 3
    /\ root = NoneId
    /\ Cardinality(LiveIds(T)) = 2
    /\ \A c \in LiveIds(T) : nodes[c + 1].parent = NoneId

\* C21: a remove_node(h, policy) with h live that returns Ok returns a node
\* carrying h's data, with no parent and no children, leaves h's slot a
\* tombstone and h on the free list once, as its last element; with
\* LiftChildren or OrphanChildren h is the only slot given up; and on a
\* tree every such call returns Ok.
C21_RemoveReturn ==
    [][(op'.name = "remove_node" /\ op'.hk = "live") =>
         LET h == op'.h IN
         /\ WellFormed(T) => res' = "ok"
         /\ res' = "ok" =>
               /\ ret'.node = [some |-> TRUE, data |-> nodes[h + 1].data,
                               parent |-> NoneId, children |-> <<>>]
               /\ Kind(T', h) = "tomb"
               /\ free_ids' # <<>>
               /\ Last(free_ids') = h
               /\ Count(free_ids', h) = 1
               /\ op'.beh # "DropChildren" =>
                     /\ free_ids' = Append(free_ids, h)
                     /\ LiveIds(T') = LiveIds(T) \ {h}]_vars

\* C21 witness: a node that had a parent and a child in a tree was removed
\* and came back without either.
C21_Witness ==
    /\ pre.rec
    /\ WellFormed(pre)
    /\ op.name = "remove_node"
    /\ op.hk = "live"
    /\ res = "ok"
    /\ pre.nodes[op.h + 1].parent # NoneId
    /\ pre.nodes[op.h + 1].children # <<>>
    /\ ret.node.parent = NoneId
    /\ ret.node.children = <<>>
    /\ Kind(T, op.h) = "tomb"
    /\ Last(free_ids) = op.h

\* C22: insert(node, UnderNode(p)) with p live returns Ok with a handle c
\* that was not live before; afterwards p's children are its previous
\* children, in their order, followed by c; c carries the inserted data, has
\* parent p and no children; the root, every other node's parent and every
\* node's children other than p's are as before.
C22_InsertUnderNode ==
    [][(op'.name = "insert" /\ op'.beh = "UnderNode" /\ op'.pk = "live") =>
         LET p == op'.p
             c == ret'.id
         IN /\ res' = "ok"
            /\ Kind(T, c) # "live"
            /\ Kind(T', c) = "live"
            /\ nodes'[p + 1].children = Append(nodes[p + 1].children, c)
            /\ nodes'[c + 1].parent = p
            /\ nodes'[c + 1].children = <<>>
            /\ nodes'[c + 1].data = op'.d
            /\ root' = root
            /\ LiveIds(T') = LiveIds(T) \cup {c}
            /\ \A n \in LiveIds(T) :
                  /\ nodes'[n + 1].parent = nodes[n + 1].parent
                  /\ nodes'[n + 1].data = nodes[n + 1].data
                  /\ n # p => nodes'[n + 1].children = nodes[n + 1].children]_vars

\* C22 witness: an insert under a live node that already had a child put the
\* new handle last among that node's children, after the earlier child.
C22_Witness ==
    /\ op.name = "insert"
    /\ op.beh = "UnderNode"
    /\ op.pk = "live"
    /\ res = "ok"
    /\ WellFormed(T)
    /\ Len(nodes[op.p + 1].children) >= 2
    /\ Last(nodes[op.p + 1].children) = ret.id
    /\ nodes[ret.id + 1].parent = op.p
    /\ nodes[ret.id + 1].children = <<>>

\* C23: insert(node, AsRoot) always returns Ok; the returned handle was not
\* live before, is the root afterwards, carries the inserted data and has no
\* parent; when there was a root R, R is the only (hence first) child of the
\* new root and R's parent is the new root; otherwise the new root has no
\* children; every node's children and every other node's parent are as
\* before.
C23_InsertAsRoot ==
    [][(op'.name = "insert" /\ op'.beh = "AsRoot") =>
         LET c == ret'.id IN
         /\ res' = "ok"
         /\ Kind(T, c) # "live"
         /\ Kind(T', c) = "live"
         /\ root' = c
         /\ nodes'[c + 1].parent = NoneId
         /\ nodes'[c + 1].data = op'.d
         /\ nodes'[c + 1].children = (IF root = NoneId THEN <<>> ELSE <<root>>)
         /\ root # NoneId => nodes'[root + 1].parent = c
         /\ LiveIds(T') = LiveIds(T) \cup {c}
         /\ \A n \in LiveIds(T) :
               /\ nodes'[n + 1].children = nodes[n + 1].children
               /\ nodes'[n + 1].data = nodes[n + 1].data
               /\ n # root => nodes'[n + 1].parent = nodes[n + 1].parent]_vars

\* C23 witness: an insert(AsRoot) on a tree whose root had a child made the
\* former root, still with its child, the only child of the new root.
C23_Witness ==
    /\ op.name = "insert"
    /\ op.beh = "AsRoot"
    /\ res = "ok"
    /\ WellFormed(T)
    /\ root = ret.id
    /\ nodes[root + 1].parent = NoneId
    /\ Len(nodes[root + 1].children) = 1
    /\ LET R == nodes[root + 1].children[1] IN
          /\ nodes[R + 1].parent = root
          /\ nodes[R + 1].children # <<>>

\* C24: in every state reached from a tree grown by inserts by insert,
\* remove_node and move_node calls with live handles, each call runs to
\* completion: no move_node(h, ToParent(p)) is left searching the ancestors
\* for ever, and no height(), pre-order traversal, ancestors walk or
\* write_formatted started in such a state goes on for ever.
C24_Termination == res # "diverge"

\* Position of id in a list that holds it once.
PosIn(list, id) == CHOOSE k \in 1 .. Len(list) : list[k] = id

\* after is before reordered: the same handles, as many times each.
IsPermutation(before, after) ==
    /\ Len(after) = Len(before)
    /\ \A c \in Range(before) \cup Range(after) : Count(after, c) = Count(before, c)

\* C25: on a tree, sort_children_by_data(h) with h live returns Ok and leaves
\* h's children a permutation of what they were, in ascending order of
\* their data, children with equal data in the order they had before,
\* whatever their own parent and children lists are.
C25_SortByDataStable ==
    [][(/\ op'.name = "sort_children_by_data"
        /\ op'.hk = "live"
        /\ WellFormed(T)) =>
         LET before == nodes[op'.h + 1].children
             after == nodes'[op'.h + 1].children
         IN /\ res' = "ok"
            /\ IsPermutation(before, after)
            /\ \A i \in 1 .. Len(after) : \A j \in (i + 1) .. Len(after) :
                  LET x == nodes[after[i] + 1].data
                      y == nodes[after[j] + 1].data
                  IN /\ x <= y
                     /\ x = y => PosIn(before, after[i]) < PosIn(before, after[j])]_vars

\* C26: on a tree, sort_children_by(h, cmp) with h live returns Ok and
\* leaves h's children a permutation of what they were, no child placed
\* before one that cmp puts below it, children that cmp does not order kept
\* in the order they had before; the root, the free list, h's data and
\* parent and every other slot are as before.
C26_SortByFrame ==
    [][(/\ op'.name = "sort_children_by"
        /\ op'.hk = "live"
        /\ WellFormed(T)) =>
         LET h == op'.h
             before == nodes[h + 1].children
             after == nodes'[h + 1].children
         IN /\ res' = "ok"
            /\ IsPermutation(before, after)
            /\ \A i \in 1 .. Len(after) : \A j \in (i + 1) .. Len(after) :
                  LET x == nodes[after[i] + 1]
                      y == nodes[after[j] + 1]
                  IN /\ ~CompareLess(op'.beh, y, x)
                     /\ ~CompareLess(op'.beh, x, y) =>
                           PosIn(before, after[i]) < PosIn(before, after[j])
            /\ root' = root
            /\ free_ids' = free_ids
            /\ Len(nodes') = Len(nodes)
            /\ nodes'[h + 1] = [nodes[h + 1] EXCEPT !.children = after]
            /\ \A k \in 1 .. Len(nodes) : k # h + 1 => nodes'[k] = nodes[k]]_vars

\* C26 witness: a sort_children_by on a tree changed the order of three
\* children, two of which carry equal data and two of which do not.
C26_Witness ==
    /\ pre.rec
    /\ WellFormed(pre)
    /\ op.name = "sort_children_by"
    /\ op.hk = "live"
    /\ res = "ok"
    /\ Len(nodes[op.h + 1].children) = 3
    /\ nodes[op.h + 1].children # pre.nodes[op.h + 1].children
    /\ \E c, e \in Range(nodes[op.h + 1].children) :
          /\ c # e
          /\ nodes[c + 1].data = nodes[e + 1].data
    /\ \E c, e \in Range(nodes[op.h + 1].children) :
          nodes[c + 1].data # nodes[e + 1].data

RECURSIVE UpLen(_, _, _)
\* Number of nodes on the chain of parent links from cur up to a parentless
\* node, cur included.
UpLen(m, cur, fuel) ==
    IF fuel = 0 \/ m.nodes[cur + 1].parent = NoneId THEN 1
    ELSE 1 + UpLen(m, m.nodes[cur + 1].parent, fuel - 1)

\* The nodes of the tree below the root, the root included.
RootNodes(m) ==
    IF m.root = NoneId THEN {} ELSE {m.root} \cup Descendants(m, m.root)

\* Number of nodes on the longest path from the root down to a node of S.
LongestPath(m, S) == MaxOf({UpLen(m, d, Len(m.nodes)) : d \in S})

\* C27: on a tree, height() returns 0 when there is no root and otherwise
\* the number of nodes on the longest path from the root to a leaf, which is
\* 1 plus the largest such number among the subtrees of the root's children;
\* insert(AsRoot) and an insert under a node of maximal depth raise it by 1,
\* an insert under any other node leaves it as it is, and after
\* remove_node(h, DropChildren) of a node other than the root it is the
\* longest path among the nodes outside h's subtree, so lower than before
\* when every deepest node was in that subtree.
C27_Height ==
    /\ (op.name = "height" /\ WellFormed(T)) =>
          /\ res = "ok"
          /\ out.n = LongestPath(T, RootNodes(T))
          /\ root = NoneId => out.n = 0
          /\ root # NoneId =>
                out.n = 1 + MaxOf({HeightOfNode(T, c, 1).n :
                                      c \in Range(nodes[root + 1].children)})
    /\ (pre.rec /\ WellFormed(PreT) /\ op.name = "insert" /\ res = "ok") =>
          LET before == Height(PreT).n
              deepest == /\ op.p \in RootNodes(PreT)
                         /\ UpLen(PreT, op.p, Len(pre.nodes)) = before
          IN Height(T).n = IF op.beh = "AsRoot" \/ deepest THEN before + 1
                           ELSE before
    /\ (/\ pre.rec /\ WellFormed(PreT) /\ op.name = "remove_node"
        /\ op.beh = "DropChildren" /\ op.hk = "live" /\ op.h # pre.root
        /\ res = "ok") =>
          LET kept == RootNodes(PreT) \ ({op.h} \cup Descendants(PreT, op.h))
              deep == {d \in RootNodes(PreT) :
                          UpLen(PreT, d, Len(pre.nodes)) = Height(PreT).n}
          IN /\ Height(T).n = LongestPath(PreT, kept)
             /\ (deep # {} /\ deep \subseteq ({op.h} \cup Descendants(PreT, op.h)))
                   => Height(T).n < Height(PreT).n

\* C27 witness: height() returned 3 on a tree whose root has two or more
\* children.
C27_Witness ==
    /\ op.name = "height"
    /\ WellFormed(T)
    /\ res = "ok"
    /\ out.n = 3
    /\ root # NoneId
    /\ Len(nodes[root + 1].children) >= 2

\* The handles of the subtree rooted at s.
Subtree(m, s) == {s} \cup Descendants(m, s)

\* C28: on a tree, traverse_pre_order_ids(s) (and traverse_pre_order(s), by
\* the handles of its nodes) with s live, run to its end, yields the handles
\* of the subtree rooted at s, each once, s first, every node before each of
\* its descendants, and for every node the whole subtree of an earlier child
\* before the whole subtree of a later child; then it ends.
C28_PreOrder ==
    (/\ op.name \in {"traverse_pre_order_ids", "traverse_pre_order"}
     /\ op.beh = "collect"
     /\ op.hk = "live"
     /\ WellFormed(T)) =>
        LET ids == out.ids
            at(c) == PosIn(ids, c)
        IN /\ res = "ok"
           /\ Range(ids) = Subtree(T, op.h)
           /\ Len(ids) = Cardinality(Subtree(T, op.h))
           /\ ids[1] = op.h
           /\ \A a, d \in Range(ids) : IsDescendant(T, d, a) => at(a) < at(d)
           /\ \A n \in Range(ids) :
                 LET kids == nodes[n + 1].children IN
                 \A i \in 1 .. Len(kids) : \A j \in (i + 1) .. Len(kids) :
                     \A x \in Subtree(T, kids[i]), y \in Subtree(T, kids[j]) :
                         at(x) < at(y)

\* C28 witness: a traversal yielded four handles, a later inserted
\* descendant of an earlier child before a later child.
C28_Witness ==
    /\ op.name = "traverse_pre_order_ids"
    /\ op.beh = "collect"
    /\ op.hk = "live"
    /\ WellFormed(T)
    /\ res = "ok"
    /\ Len(out.ids) = 4
    /\ \E k \in 1 .. 3 : out.ids[k] > out.ids[k + 1]

\* C29: on a tree, ancestor_ids(s) (and ancestors(s), by the handles of its
\* nodes) with s live, run to its end, yields s's parent, then the parent of
\* each handle yielded, never s, and ends after the first handle whose node
\* has no parent; it yields nothing when s has no parent.
C29_Ancestors ==
    (/\ op.name \in {"ancestor_ids", "ancestors"}
     /\ op.beh = "collect"
     /\ op.hk = "live"
     /\ WellFormed(T)) =>
        LET ids == out.ids IN
        /\ res = "ok"
        /\ ids = <<>> <=> nodes[op.h + 1].parent = NoneId
        /\ ids # <<>> =>
              /\ ids[1] = nodes[op.h + 1].parent
              /\ nodes[Last(ids) + 1].parent = NoneId
        /\ \A k \in 1 .. (Len(ids) - 1) :
              /\ nodes[ids[k] + 1].parent # NoneId
              /\ ids[k + 1] = nodes[ids[k] + 1].parent
        /\ op.h \notin Range(ids)

\* C29 witness: the ancestors of a node three levels below the root were
\* yielded, nearest first, the root last.
C29_Witness ==
    /\ op.name = "ancestor_ids"
    /\ op.beh = "collect"
    /\ op.hk = "live"
    /\ WellFormed(T)
    /\ res = "ok"
    /\ Len(out.ids) = 3
    /\ out.ids[3] = root

RECURSIVE AncestorAt(_, _, _)
\* The ancestor of n (or n itself) that has `up` nodes above it.
AncestorAt(m, n, up) ==
    IF UpLen(m, n, Len(m.nodes)) - 1 <= up THEN n
    ELSE AncestorAt(m, m.nodes[n + 1].parent, up)

\* n is the last of its parent's children.
IsLastChild(m, n) ==
    LET p == m.nodes[n + 1].parent IN
    p # NoneId /\ Last(m.nodes[p + 1].children) = n

C32_OutOfBoundsFatal ==
    (op.hk = "oob" \/ op.pk = "oob") => res = "panic"

\* Some slot is live and there is no root.
RootlessNodes(m) == LiveIds(m) # {} /\ m.root = NoneId

LengthIsLivePlusFree(m) ==
    Len(m.nodes) = Cardinality(LiveIds(m)) + Len(m.free_ids)

\* C34: an insert that returns Ok puts the node in the slot named last by
\* the free list, which loses that entry, when the free list is not empty,
\* and in a new slot at the end of the storage otherwise; no call shortens
\* the storage, so the returned handle, below the length then, is below it
\* in every later state; and the length of the storage is always the number
\* of live nodes plus the length of the free list.
C34_SlotReuse ==
    /\ []LengthIsLivePlusFree(T)
    /\ [][/\ Len(nodes') >= Len(nodes)
          /\ (op'.name = "insert" /\ res' = "ok") =>
                /\ ret'.id < Len(nodes')
                /\ Kind(T', ret'.id) = "live"
                /\ IF free_ids # <<>>
                   THEN /\ ret'.id = Last(free_ids)
                        /\ free_ids' = SubSeq(free_ids, 1, Len(free_ids) - 1)
                        /\ Len(nodes') = Len(nodes)
                   ELSE /\ ret'.id = Len(nodes)
                        /\ free_ids' = <<>>
                        /\ Len(nodes') = Len(nodes) + 1]_vars

\* C34 witness: an insert returned a handle that is not the last slot of the
\* storage, a freed slot used again, leaving the free list empty.
C34_Witness ==
    /\ op.name = "insert"
    /\ res = "ok"
    /\ ret.id < Len(nodes) - 1
    /\ Kind(T, ret.id) = "live"
    /\ free_ids = <<>>
    /\ WellFormed(T)

\* C35: on a tree, find_subtree_root_between_ids(lower, upper) with both
\* live returns the child of upper on the chain of parents from lower up to
\* upper (lower itself when upper is lower's parent) when upper is a proper
\* ancestor of lower, and None otherwise: when lower is upper, when upper is
\* below lower, and when neither is above the other.
C35_FindSubtreeRoot ==
    (/\ op.name = "find_subtree_root_between_ids"
     /\ op.hk = "live"
     /\ op.pk = "live"
     /\ WellFormed(T)) =>
        LET lower == op.h
            upper == op.p
        IN /\ res = "ok"
           /\ IF IsDescendant(T, lower, upper)
              THEN \E c \in Range(nodes[upper + 1].children) :
                      /\ out.ids = <<c>>
                      /\ c = lower \/ IsDescendant(T, lower, c)
                      /\ nodes[lower + 1].parent = upper => c = lower
              ELSE out.ids = <<>>
           /\ (lower = upper \/ IsDescendant(T, upper, lower)) => out.ids = <<>>

\* C35 witness: the search from a node two levels below upper returned the
\* child of upper between them.
C35_Witness ==
    /\ op.name = "find_subtree_root_between_ids"
    /\ op.hk = "live"
    /\ op.pk = "live"
    /\ WellFormed(T)
    /\ res = "ok"
    /\ Len(out.ids) = 1
    /\ out.ids[1] # op.h
    /\ nodes[out.ids[1] + 1].parent = op.p
    /\ nodes[op.h + 1].parent = out.ids[1]

----------------------------------------------------------------------------
(* Tree equality                                                           *)

\* The data of the parent of live node i of m: <<>> for a node without a
\* parent, <<d>> for a node whose parent holds d.
ParentData(m, i) ==
    IF m.nodes[i + 1].parent = NoneId THEN <<>>
    ELSE <<m.nodes[m.nodes[i + 1].parent + 1].data>>

\* Two trees have as many live nodes, at the same slot indices, and at each
\* index the same data and the same parent data.
SameLiveNodes(a, b) ==
    /\ Cardinality(LiveIds(a)) = Cardinality(LiveIds(b))
    /\ LiveIds(a) = LiveIds(b)
    /\ \A i \in LiveIds(a) \cap LiveIds(b) :
          /\ a.nodes[i + 1].data = b.nodes[i + 1].data
          /\ ParentData(a, i) = ParentData(b, i)

\* C31: a comparison of two trees returns, and returns true exactly when
\* the two trees have the same number of live nodes, the same set of live
\* slot indices and, at each live index, equal data and equal parent data
\* (both without a parent, or both with parents of equal data); tombstones
\* and the free list play no part.
C31_TreeEquality ==
    op.name = "eq" =>
       /\ res = "ok"
       /\ out.n = 1 <=> SameLiveNodes(T, OtherT)

\* A comparison returned true for two trees of different storage length and
\* different free lists: one of them has a tombstone the other has not.
C31_Witness ==
    /\ op.name = "eq"
    /\ res = "ok"
    /\ out.n = 1
    /\ LiveIds(T) # {}
    /\ Len(nodes) # Len(other.nodes)
    /\ free_ids # other.free_ids

\* Two trees have the same storage but for the order of the children lists,
\* the root and the free list: slot by slot the same kind, the same data,
\* the same parent and the same children in some order.
SameButOrderAndRoot(a, b) ==
    /\ Len(a.nodes) = Len(b.nodes)
    /\ \A k \in 1 .. Len(a.nodes) :
          /\ a.nodes[k].some = b.nodes[k].some
          /\ a.nodes[k].some =>
                /\ a.nodes[k].data = b.nodes[k].data
                /\ a.nodes[k].parent = b.nodes[k].parent
                /\ IsPermutation(a.nodes[k].children, b.nodes[k].children)

\* C36: a comparison of two trees looks neither at the order of siblings nor
\* at the root: two trees that differ in nothing but the order of some
\* children lists, or in nothing but the root, compare equal.
C36_IgnoresOrderAndRoot ==
    (op.name = "eq" /\ SameButOrderAndRoot(T, OtherT)) =>
       /\ res = "ok"
       /\ out.n = 1

\* A comparison returned true for two trees in which a node's children are
\* the same handles in a different order.
C36_Witness ==
    /\ op.name = "eq"
    /\ res = "ok"
    /\ out.n = 1
    /\ SameButOrderAndRoot(T, OtherT)
    /\ root = other.root
    /\ \E i \in LiveIds(T) :
          /\ nodes[i + 1].children # other.nodes[i + 1].children
          /\ Len(nodes[i + 1].children) > 1

====
